---- MODULE Spec2Model ----
(***************************************************************************)
(* A model of JSNetworkX's keyed map (jsnx.classes.HashMap) and of the     *)
(* four graph classes built on it (Graph, DiGraph, MultiGraph,             *)
(* MultiDiGraph).                                                          *)
(*                                                                         *)
(* A JavaScript value used as a key is modelled as a pair <<type, n>>:     *)
(* Num(n) is the number n and Str(n) is the string whose characters are    *)
(* the decimal digits of n.  The string form ("" + val) of both is the     *)
(* same digit string, which the model identifies with n.                   *)
(***************************************************************************)
EXTENDS Integers, Sequences, FiniteSets, TLC

\* ------------------------------------------------------------------ bounds
MaxNode == 2        \* nodes are the numbers 1..MaxNode
MaxKey == 1         \* caller-supplied edge keys are the numbers 0..MaxKey
MaxMapKey == 2      \* keys of the stand-alone map are the numbers 1..MaxMapKey
MaxVersion == 4     \* the stand-alone map stops mutating at this version_
MaxParallel == 2    \* a key-map holds at most this many parallel edges
MaxBunch == 1       \* a bunch passed to a ..._from call holds at most this many items
MaxCalls == 5       \* a graph receives at most this many calls
MaxSubBunch == 2    \* a bunch passed to subgraph holds at most this many nodes
MaxRemoveBunch == 2 \* a bunch passed to remove_nodes_from / remove_edges_from holds at most this many items
MaxLabel == 3       \* the labels of an in-place relabelling are the strings "1".."MaxLabel"
MaxRelabelCalls == 4  \* a graph that is relabelled receives at most this many calls
MaxFirstLabel == 2  \* the first label of convert_node_labels_to_integers is in 0..MaxFirstLabel

Num(n) == <<"number", n>>
Str(n) == <<"string", n>>

Nodes == {Num(i) : i \in 1..MaxNode}
KeyInputs == {Num(i) : i \in 0..MaxKey}
MapKeys == {Num(i) : i \in 1..MaxMapKey}
MapVals == {"x", "y"}
EdgeAttrInputs == {<<>>}
NodeAttrInputs == {<<>>, [a |-> 1], [a |-> 2], [b |-> 1]}

\* "no key given" (null / undefined opt_key)
Null == <<"null", 0>>

goog_isDefAndNotNull(x) == x # Null

\* A function written out as an explicit table of its values (the same
\* function; it is then evaluated once instead of at every application).
Table(f) == f @@ <<>>

\* ------------------------------------------------------- attribute records
\* An attribute record is a function from a finite set of names to values.
EmptyAttr == <<>>

\* goog.object.extend(target, source): source's keys overwrite target's.
goog_object_extend(target, source) ==
    Table([k \in (DOMAIN target) \cup (DOMAIN source) |->
            IF k \in DOMAIN source THEN source[k] ELSE target[k]])

\* ------------------------------------------------------------------ HashMap
\* map_    : hash -> <<key, value>>  (the own properties of the JS object)
\* hashes_ : the array of hashes, which may hold dead and duplicate entries
\* count_, version_ : as in the source
EmptyHashMap == [map_ |-> <<>>, hashes_ |-> <<>>, count_ |-> 0, version_ |-> 0]

\* keyHash_: a primitive hashes to its string form "" + val.
keyHash_(val) == val[2]

hasHash_(obj, hash) == hash \in DOMAIN obj

getCount(m) == m.count_

containsKey(m, key) ==
    LET hash == keyHash_(key)
    IN  hasHash_(m.map_, hash) /\ m.map_[hash][1] = key

\* get(key): the value stored under key's hash.  The callers in this model
\* test for the hash first; getDefined/getThrows state the two other outcomes.
getDefined(m, key) == hasHash_(m.map_, keyHash_(key))
getThrows(m, key) == getDefined(m, key) /\ m.map_[keyHash_(key)][1] # key
get(m, key) == m.map_[keyHash_(key)][2]

RECURSIVE DropSeen(_, _)
\* second pass of cleanupKeysArray_: keep the first occurrence of each hash
DropSeen(hashes, seen) ==
    IF hashes = <<>> THEN <<>>
    ELSE IF Head(hashes) \in seen THEN DropSeen(Tail(hashes), seen)
    ELSE <<Head(hashes)>> \o DropSeen(Tail(hashes), seen \cup {Head(hashes)})

cleanupKeysArray_(m) ==
    LET pass1 == IF m.count_ # Len(m.hashes_)
                 THEN SelectSeq(m.hashes_, LAMBDA h : hasHash_(m.map_, h))
                 ELSE m.hashes_
        pass2 == IF m.count_ # Len(pass1) THEN DropSeen(pass1, {}) ELSE pass1
    IN  [m EXCEPT !.hashes_ = pass2]

\* remove(key): removes by hash; the version grows; the keys array is
\* cleaned when it is more than twice as long as the count.
remove(m, key) ==
    LET hash == keyHash_(key)
    IN  IF hasHash_(m.map_, hash)
        THEN LET m1 == [m EXCEPT !.map_ = Table([h \in (DOMAIN m.map_) \ {hash} |-> m.map_[h]]),
                                 !.count_ = @ - 1,
                                 !.version_ = @ + 1]
             IN  IF Len(m1.hashes_) > 2 * m1.count_ THEN cleanupKeysArray_(m1) ELSE m1
        ELSE m

\* set(key, value): only a hash that is not yet present changes the version.
set(m, key, value) ==
    LET hash == keyHash_(key)
        m1 == IF ~hasHash_(m.map_, hash)
              THEN [m EXCEPT !.count_ = @ + 1,
                             !.hashes_ = Append(@, hash),
                             !.version_ = @ + 1]
              ELSE m
    IN  [m1 EXCEPT !.map_ = (hash :> <<key, value>>) @@ m.map_]

\* clear(): empties the map and sets version_ back to 0.
clear(m) == [map_ |-> <<>>, hashes_ |-> <<>>, count_ |-> 0, version_ |-> 0]

\* getKeys / getValues read the keys array after cleaning it.
getKeys(m) ==
    LET c == cleanupKeysArray_(m)
    IN  Table([i \in 1..Len(c.hashes_) |-> c.map_[c.hashes_[i]][1]])

getValues(m) ==
    LET c == cleanupKeysArray_(m)
    IN  Table([i \in 1..Len(c.hashes_) |-> c.map_[c.hashes_[i]][2]])

\* A value of a map is a mutable object: updating it in place leaves the
\* map's own count_, hashes_ and version_ alone.
updateValue(m, key, value) == [m EXCEPT !.map_[keyHash_(key)] = <<key, value>>]

\* The keys a map holds, as a set.
keySet(m) == {m.map_[h][1] : h \in DOMAIN m.map_}

\* ---- iterators
NoIter == [type |-> "none", i |-> 0, version |-> 0, live |-> TRUE, map |-> <<>>,
           stale |-> FALSE]

\* __iterator__(opt_type): cleans the keys array and captures the array
\* (hashes, shared with the map from then on), the map_ object and version_.
\* live = TRUE while the captured map_ object is still the map's own map_
\* (clear() replaces the map's map_ by a new object and leaves the captured
\* one as it was); stale records whether the map was structurally changed
\* since the iterator was created.
HashMap_iterator(m, opt_type) ==
    [type |-> opt_type, i |-> 0, version |-> m.version_, live |-> TRUE,
     map |-> <<>>, stale |-> FALSE]

\* next(): the outcome and the advanced iterator.
iterNext(m, it) ==
    IF it.version # m.version_
    THEN [kind |-> "changed", elem |-> <<>>, it |-> it]
    ELSE IF it.i >= Len(m.hashes_)
    THEN [kind |-> "StopIteration", elem |-> <<>>, it |-> it]
    ELSE LET hash == m.hashes_[it.i + 1]
             map == IF it.live THEN m.map_ ELSE it.map
             it1 == [it EXCEPT !.i = @ + 1]
         IN  IF hasHash_(map, hash)
             THEN [kind |-> "element",
                   elem |-> IF it.type = "key" THEN <<map[hash][1]>>
                            ELSE IF it.type = "value" THEN <<map[hash][2]>>
                            ELSE map[hash],
                   it |-> it1]
             ELSE IF it.type = "entry"
                  THEN [kind |-> "element", elem |-> <<>>, it |-> it1]
                  ELSE [kind |-> "TypeError", elem |-> <<>>, it |-> it1]

\* ------------------------------------------------------------ graph classes
\* A graph object ("this") is a record
\*   variant : "Graph" | "DiGraph" | "MultiGraph" | "MultiDiGraph"
\*   nodes_  : HashMap node -> attribute record
\*   adj_    : HashMap node -> HashMap neighbour -> reference
\*             (succ_ is the same object as adj_ in the directed classes)
\*   pred_   : HashMap node -> HashMap predecessor -> reference
\*   graph_  : the graph-attribute record
\*   heap    : reference -> the object referred to: the edge's attribute record
\*             (Graph, DiGraph) or its key-map, a HashMap key -> attribute
\*             record (MultiGraph, MultiDiGraph)
\* Two adjacency entries hold the very same object iff they hold the same
\* reference.  A call returns [this |-> the graph after it, err |-> "none" or
\* the name of the error it threw].
Ok(this) == [this |-> this, err |-> "none"]
Throw(this, e) == [this |-> this, err |-> e]
Then(r, F(_)) == IF r.err # "none" THEN r ELSE F(r.this)

IsDirected(this) == this.variant \in {"DiGraph", "MultiDiGraph"}
IsMulti(this) == this.variant \in {"MultiGraph", "MultiDiGraph"}

\* JavaScript's u != v on primitives compares a number and a digit string by
\* their numeric value.
LooseNeq(u, v) == u[2] # v[2]

\* a reference not in use
NewRef(heap) == CHOOSE r \in 0..Cardinality(DOMAIN heap) :
                    /\ r \notin DOMAIN heap
                    /\ \A q \in 0..Cardinality(DOMAIN heap) : q \notin DOMAIN heap => r <= q

\* newNodeMap_(), newEdgeMap_()
newNodeMap_ == EmptyHashMap
newEdgeMap_ == EmptyHashMap

\* adj(n), succ(n), pred(n): undefined when n has no entry
adjDefined(this, n) == getDefined(this.adj_, n)
adj(this, n) == get(this.adj_, n)
predDefined(this, n) == getDefined(this.pred_, n)
pred(this, n) == get(this.pred_, n)
node(this, n) == get(this.nodes_, n)

\* in-place changes of the neighbour map of n
SetAdj(this, n, m) == [this EXCEPT !.adj_ = updateValue(@, n, m)]
SetPred(this, n, m) == [this EXCEPT !.pred_ = updateValue(@, n, m)]

has_node(this, n) == containsKey(this.nodes_, n)

Graph_has_edge(this, u, v) ==
    has_node(this, u) /\ has_node(this, v) /\ containsKey(adj(this, u), v)

MultiGraph_has_edge(this, u, v, opt_key) ==
    IF ~goog_isDefAndNotNull(opt_key)
    THEN adjDefined(this, u) /\ containsKey(adj(this, u), v)
    ELSE /\ adjDefined(this, u)
         /\ containsKey(adj(this, u), v)
         /\ containsKey(this.heap[get(adj(this, u), v)], opt_key)

\* ---- add_node
Graph_add_node_impl(this, n, opt_attr_dict) ==
    IF ~has_node(this, n)
    THEN Ok([this EXCEPT !.adj_ = set(@, n, newNodeMap_),
                         !.nodes_ = set(@, n, opt_attr_dict)])
    ELSE Ok([this EXCEPT !.nodes_ =
                updateValue(@, n, goog_object_extend(node(this, n), opt_attr_dict))])

\* DiGraph: the record is replaced by {} whenever one is given (lines
\* 123-125), and add_node always gives one.
DiGraph_add_node_impl(this, n, opt_attr_dict) ==
    LET attr == EmptyAttr
    IN  IF ~containsKey(this.nodes_, n)
        THEN Ok([this EXCEPT !.adj_ = set(@, n, newNodeMap_),
                             !.pred_ = set(@, n, newNodeMap_),
                             !.nodes_ = set(@, n, attr)])
        ELSE Ok([this EXCEPT !.nodes_ =
                    updateValue(@, n, goog_object_extend(node(this, n), attr))])

\* MultiDiGraph: nothing is done for a node that is present.
MultiDiGraph_add_node_impl(this, n, opt_attr_dict) ==
    IF ~has_node(this, n)
    THEN Ok([this EXCEPT !.adj_ = set(@, n, newNodeMap_),
                         !.pred_ = set(@, n, newNodeMap_),
                         !.nodes_ = set(@, n, opt_attr_dict)])
    ELSE Ok(this)

add_node_impl(this, n, opt_attr_dict) ==
    CASE this.variant = "DiGraph" -> DiGraph_add_node_impl(this, n, opt_attr_dict)
      [] this.variant = "MultiDiGraph" -> MultiDiGraph_add_node_impl(this, n, opt_attr_dict)
      [] OTHER -> Graph_add_node_impl(this, n, opt_attr_dict)

\* Graph.prototype.add_node, inherited by every class; a missing attribute
\* record is {} (the model only passes records).
add_node(this, n, opt_attr_dict) == add_node_impl(this, n, opt_attr_dict)

\* ---- add_edge
\* Graph.add_edge_impl: one record, stored on both sides.
Graph_add_edge_impl(this, u, v, opt_attr_dict) ==
    Then(add_node(this, u, EmptyAttr), LAMBDA t1 :
    Then(add_node(t1, v, EmptyAttr), LAMBDA t2 :
        LET edges == adj(t2, u)
        IN  IF containsKey(edges, v)
            THEN LET datadict == get(edges, v)
                 IN  Ok([t2 EXCEPT !.heap[datadict] =
                            goog_object_extend(@, opt_attr_dict)])
            ELSE LET datadict == NewRef(t2.heap)
                     t3 == [t2 EXCEPT !.heap =
                              (datadict :> goog_object_extend(EmptyAttr, opt_attr_dict)) @@ @]
                     t4 == SetAdj(t3, u, set(adj(t3, u), v, datadict))
                 IN  Ok(SetAdj(t4, v, set(adj(t4, v), u, datadict)))))

\* A DiGraph.add_edge_impl that stores the record in succ[u][v] only.
DiGraph_add_edge_impl_SuccOnly(this, u, v, opt_attr_dict) ==
    Then(add_node(this, u, EmptyAttr), LAMBDA t1 :
    Then(add_node(t1, v, EmptyAttr), LAMBDA t2 :
        LET edges == adj(t2, u)
        IN  IF containsKey(edges, v)
            THEN LET datadict == get(edges, v)
                 IN  Ok([t2 EXCEPT !.heap[datadict] =
                            goog_object_extend(@, opt_attr_dict)])
            ELSE LET datadict == NewRef(t2.heap)
                     t3 == [t2 EXCEPT !.heap =
                              (datadict :> goog_object_extend(EmptyAttr, opt_attr_dict)) @@ @]
                 IN  Ok(SetAdj(t3, u, set(adj(t3, u), v, datadict)))))

\* DiGraph.add_edge_impl: one record, stored in succ[u][v] and pred[v][u].
DiGraph_add_edge_impl(this, u, v, opt_attr_dict) ==
    Then(add_node(this, u, EmptyAttr), LAMBDA t1 :
    Then(add_node(t1, v, EmptyAttr), LAMBDA t2 :
        LET edges == adj(t2, u)
        IN  IF containsKey(edges, v)
            THEN LET datadict == get(edges, v)
                 IN  Ok([t2 EXCEPT !.heap[datadict] =
                            goog_object_extend(@, opt_attr_dict)])
            ELSE LET datadict == NewRef(t2.heap)
                     t3 == [t2 EXCEPT !.heap =
                              (datadict :> goog_object_extend(EmptyAttr, opt_attr_dict)) @@ @]
                     t4 == SetAdj(t3, u, set(adj(t3, u), v, datadict))
                 IN  Ok(SetPred(t4, v, set(pred(t4, v), u, datadict)))))

\* "find a unique integer key": start at the count and step up.
RECURSIVE FindKey(_, _)
FindKey(keydict, k) ==
    IF containsKey(keydict, Num(k)) THEN FindKey(keydict, k + 1) ELSE k

\* the branch of the multi add_edge_impl for a pair that has a key-map
Multi_add_to_keydict(t2, ref, opt_key, opt_attr_dict) ==
    LET keydict == t2.heap[ref]
        key == IF ~goog_isDefAndNotNull(opt_key)
               THEN Num(FindKey(keydict, getCount(keydict)))
               ELSE opt_key
        datadict == IF getDefined(keydict, key) THEN get(keydict, key) ELSE EmptyAttr
    IN  IF getThrows(keydict, key) THEN Throw(t2, "Error")
        ELSE Ok([t2 EXCEPT !.heap[ref] =
                    set(keydict, key, goog_object_extend(datadict, opt_attr_dict))])

\* the branch for a pair without one: a new key-map
Multi_new_keydict(opt_key, opt_attr_dict) ==
    LET key == IF ~goog_isDefAndNotNull(opt_key) THEN Num(0) ELSE opt_key
    IN  set(newEdgeMap_, key, goog_object_extend(EmptyAttr, opt_attr_dict))

MultiGraph_add_edge_impl(this, u, v, opt_key, opt_attr_dict) ==
    Then(add_node(this, u, EmptyAttr), LAMBDA t1 :
    Then(add_node(t1, v, EmptyAttr), LAMBDA t2 :
        LET uadj == adj(t2, u)
        IN  IF containsKey(uadj, v)
            THEN Multi_add_to_keydict(t2, get(uadj, v), opt_key, opt_attr_dict)
            ELSE LET ref == NewRef(t2.heap)
                     t3 == [t2 EXCEPT !.heap =
                              (ref :> Multi_new_keydict(opt_key, opt_attr_dict)) @@ @]
                     t4 == SetAdj(t3, u, set(adj(t3, u), v, ref))
                 IN  Ok(SetAdj(t4, v, set(adj(t4, v), u, ref)))))

MultiDiGraph_add_edge_impl(this, u, v, opt_key, opt_attr_dict) ==
    Then(add_node(this, u, EmptyAttr), LAMBDA t1 :
    Then(add_node(t1, v, EmptyAttr), LAMBDA t2 :
        IF MultiGraph_has_edge(t2, u, v, Null)
        THEN Multi_add_to_keydict(t2, get(adj(t2, u), v), opt_key, opt_attr_dict)
        ELSE LET ref == NewRef(t2.heap)
                 t3 == [t2 EXCEPT !.heap =
                          (ref :> Multi_new_keydict(opt_key, opt_attr_dict)) @@ @]
                 t4 == SetAdj(t3, u, set(adj(t3, u), v, ref))
             IN  Ok(SetPred(t4, v, set(pred(t4, v), u, ref)))))

add_edge_impl(this, u, v, opt_key, opt_attr_dict) ==
    CASE this.variant = "Graph" -> Graph_add_edge_impl(this, u, v, opt_attr_dict)
      [] this.variant = "DiGraph" -> DiGraph_add_edge_impl(this, u, v, opt_attr_dict)
      [] this.variant = "MultiGraph" ->
            MultiGraph_add_edge_impl(this, u, v, opt_key, opt_attr_dict)
      [] OTHER -> MultiDiGraph_add_edge_impl(this, u, v, opt_key, opt_attr_dict)

\* add_edge of the four classes: the attribute record defaults to {} and the
\* call goes to the class's add_edge_impl (the simple classes take no key).
add_edge(this, u, v, opt_key, opt_attr_dict) ==
    add_edge_impl(this, u, v, opt_key, opt_attr_dict)

\* ---- remove_node
\* goog.iter.forEach(nbrs, ...) of Graph.remove_node_impl.  nbrs is the key
\* iterator created on adj(n) before the loop; the loop body removes n from
\* the neighbour's map, which for a self-loop is the map being iterated.
RECURSIVE Graph_remove_node_forEach(_, _, _)
Graph_remove_node_forEach(this, n, nbrs) ==
    LET r == iterNext(adj(this, n), nbrs)
    IN  CASE r.kind = "changed" -> Throw(this, "Error")
          [] r.kind = "StopIteration" -> Ok(this)
          [] r.kind = "TypeError" -> Throw(this, "TypeError")
          [] OTHER ->
                LET u == r.elem[1]
                IN  IF ~adjDefined(this, u) THEN Throw(this, "TypeError")
                    ELSE Graph_remove_node_forEach(
                            SetAdj(this, u, remove(adj(this, u), n)), n, r.it)

Graph_remove_node_impl(this, n) ==
    IF ~has_node(this, n) THEN Throw(this, "JSNetworkXError")
    ELSE IF ~adjDefined(this, n) THEN Throw(this, "TypeError")
    ELSE LET t0 == SetAdj(this, n, cleanupKeysArray_(adj(this, n)))
             nbrs == HashMap_iterator(adj(t0, n), "key")
             t1 == [t0 EXCEPT !.nodes_ = remove(@, n)]
         IN  Then(Graph_remove_node_forEach(t1, n, nbrs), LAMBDA t2 :
                Ok([t2 EXCEPT !.adj_ = remove(@, n)]))

\* The two loops of DiGraph.remove_node_impl iterate succ(n) and pred(n) while
\* changing only other maps (pred(u), succ(u)), so each walks the keys its map
\* had when the loop began.
RECURSIVE DiGraph_remove_from_pred(_, _, _)
DiGraph_remove_from_pred(this, n, succs) ==
    IF succs = <<>> THEN Ok(this)
    ELSE LET u == Head(succs)
         IN  IF ~predDefined(this, u) THEN Throw(this, "TypeError")
             ELSE DiGraph_remove_from_pred(
                     SetPred(this, u, remove(pred(this, u), n)), n, Tail(succs))

RECURSIVE DiGraph_remove_from_succ(_, _, _)
DiGraph_remove_from_succ(this, n, preds) ==
    IF preds = <<>> THEN Ok(this)
    ELSE LET u == Head(preds)
         IN  IF ~adjDefined(this, u) THEN Throw(this, "TypeError")
             ELSE DiGraph_remove_from_succ(
                     SetAdj(this, u, remove(adj(this, u), n)), n, Tail(preds))

DiGraph_remove_node_impl(this, n) ==
    IF ~has_node(this, n) THEN Throw(this, "JSNetworkXError")
    ELSE IF ~adjDefined(this, n) THEN Throw(this, "TypeError")
    ELSE LET t0 == SetAdj(this, n, cleanupKeysArray_(adj(this, n)))
         IN  Then(DiGraph_remove_from_pred(t0, n, getKeys(adj(t0, n))), LAMBDA t1 :
                LET t2 == [t1 EXCEPT !.adj_ = remove(@, n)]
                IN  IF ~has_node(t2, n) THEN Throw(t2, "JSNetworkXError")
                    ELSE IF ~predDefined(t2, n) THEN Throw(t2, "TypeError")
                    ELSE LET t3 == SetPred(t2, n, cleanupKeysArray_(pred(t2, n)))
                         IN  Then(DiGraph_remove_from_succ(t3, n, getKeys(pred(t3, n))),
                                  LAMBDA t4 :
                                    Ok([t4 EXCEPT !.pred_ = remove(@, n),
                                                  !.nodes_ = remove(@, n)])))

\* MultiDiGraph defines no remove_node_impl of its own; the method it ends up
\* with depends on jsnx.helper.mixin.  Composed as the specification says
\* (directed twin adjacency), it is DiGraph's.
MultiDiGraph_remove_node_impl(this, n) == DiGraph_remove_node_impl(this, n)

remove_node_impl(this, n) ==
    CASE this.variant = "DiGraph" -> DiGraph_remove_node_impl(this, n)
      [] this.variant = "MultiDiGraph" -> MultiDiGraph_remove_node_impl(this, n)
      [] OTHER -> Graph_remove_node_impl(this, n)

\* Graph.prototype.remove_node, inherited by every class
remove_node(this, n) ==
    IF ~has_node(this, n) THEN Throw(this, "JSNetworkXError")
    ELSE remove_node_impl(this, n)

\* jsnx.helper.forEach(nodes, ...) of remove_nodes_from
RECURSIVE remove_nodes_from(_, _)
remove_nodes_from(this, nodes) ==
    IF nodes = <<>> THEN Ok(this)
    ELSE IF has_node(this, Head(nodes))
    THEN Then(remove_node_impl(this, Head(nodes)), LAMBDA t1 :
            remove_nodes_from(t1, Tail(nodes)))
    ELSE remove_nodes_from(this, Tail(nodes))

\* ---- remove_edge
\* A Graph.remove_edge_impl that removes adj[u][v] and leaves adj[v][u].
Graph_remove_edge_impl_OneSide(this, u, v) ==
    IF ~adjDefined(this, u) THEN Throw(this, "TypeError")
    ELSE Ok(SetAdj(this, u, remove(adj(this, u), v)))

Graph_remove_edge_impl(this, u, v) ==
    IF ~adjDefined(this, u) THEN Throw(this, "TypeError")
    ELSE LET t1 == SetAdj(this, u, remove(adj(this, u), v))
         IN  IF LooseNeq(u, v)
             THEN IF ~adjDefined(t1, v) THEN Throw(t1, "TypeError")
                  ELSE Ok(SetAdj(t1, v, remove(adj(t1, v), u)))
             ELSE Ok(t1)

\* DiGraph.remove_edge_impl calls this.has_node_, which no class defines:
\* the call throws a TypeError before anything is removed.
DiGraph_remove_edge_impl(this, u, v) == Throw(this, "TypeError")

\* d.remove(d.getKeyIterator().next()): the first key of the cleaned array
Multi_remove_first_key(d) ==
    LET c == cleanupKeysArray_(d)
        r == iterNext(c, HashMap_iterator(c, "key"))
    IN  IF r.kind = "element" THEN [d |-> remove(c, r.elem[1]), err |-> "none"]
        ELSE [d |-> c, err |-> r.kind]

\* A MultiGraph.remove_edge_impl that leaves the (u, v) entries in place when
\* the key-map becomes empty.
MultiGraph_remove_edge_impl_KeepEntry(this, u, v, opt_key) ==
    IF ~adjDefined(this, u) THEN Throw(this, "TypeError")
    ELSE IF ~getDefined(adj(this, u), v) THEN Throw(this, "TypeError")
    ELSE LET ref == get(adj(this, u), v)
             d == this.heap[ref]
             rm == IF ~goog_isDefAndNotNull(opt_key)
                   THEN Multi_remove_first_key(d)
                   ELSE IF ~containsKey(d, opt_key)
                        THEN [d |-> d, err |-> "JSNetworkXError"]
                        ELSE [d |-> remove(d, opt_key), err |-> "none"]
             t1 == [this EXCEPT !.heap[ref] = rm.d]
         IN  IF rm.err # "none" THEN Throw(t1, rm.err) ELSE Ok(t1)

MultiGraph_remove_edge_impl(this, u, v, opt_key) ==
    IF ~adjDefined(this, u) THEN Throw(this, "TypeError")
    ELSE IF ~getDefined(adj(this, u), v) THEN Throw(this, "TypeError")
    ELSE LET ref == get(adj(this, u), v)
             d == this.heap[ref]
             rm == IF ~goog_isDefAndNotNull(opt_key)
                   THEN Multi_remove_first_key(d)
                   ELSE IF ~containsKey(d, opt_key)
                        THEN [d |-> d, err |-> "JSNetworkXError"]
                        ELSE [d |-> remove(d, opt_key), err |-> "none"]
             t1 == [this EXCEPT !.heap[ref] = rm.d]
         IN  IF rm.err # "none" THEN Throw(t1, rm.err)
             ELSE IF getCount(rm.d) = 0
             THEN LET t2 == SetAdj(t1, u, remove(adj(t1, u), v))
                  IN  IF LooseNeq(u, v)
                      THEN IF ~adjDefined(t2, v) THEN Throw(t2, "TypeError")
                           ELSE Ok(SetAdj(t2, v, remove(adj(t2, v), u)))
                      ELSE Ok(t2)
             ELSE Ok(t1)

MultiDiGraph_remove_edge_impl(this, u, v, opt_key) ==
    IF ~adjDefined(this, u) THEN Throw(this, "TypeError")
    ELSE IF ~getDefined(adj(this, u), v) THEN Throw(this, "TypeError")
    ELSE LET ref == get(adj(this, u), v)
             d == this.heap[ref]
             rm == IF ~goog_isDefAndNotNull(opt_key)
                   THEN Multi_remove_first_key(d)
                   ELSE IF ~containsKey(d, opt_key)
                        THEN [d |-> d, err |-> "JSNetworkXError"]
                        ELSE [d |-> remove(d, opt_key), err |-> "none"]
             t1 == [this EXCEPT !.heap[ref] = rm.d]
         IN  IF rm.err # "none" THEN Throw(t1, rm.err)
             ELSE IF getCount(rm.d) = 0
             THEN LET t2 == SetAdj(t1, u, remove(adj(t1, u), v))
                  IN  IF ~predDefined(t2, v) THEN Throw(t2, "TypeError")
                      ELSE Ok(SetPred(t2, v, remove(pred(t2, v), u)))
             ELSE Ok(t1)

remove_edge_impl(this, u, v, opt_key) ==
    CASE this.variant = "Graph" -> Graph_remove_edge_impl(this, u, v)
      [] this.variant = "DiGraph" -> DiGraph_remove_edge_impl(this, u, v)
      [] this.variant = "MultiGraph" -> MultiGraph_remove_edge_impl(this, u, v, opt_key)
      [] OTHER -> MultiDiGraph_remove_edge_impl(this, u, v, opt_key)

\* Graph.prototype.remove_edge (Graph and DiGraph): a TypeError thrown by
\* remove_edge_impl becomes the lookup error.
Graph_remove_edge(this, u, v) ==
    LET r == remove_edge_impl(this, u, v, Null)
    IN  IF r.err = "TypeError" THEN Throw(r.this, "JSNetworkXError") ELSE r

MultiGraph_remove_edge(this, u, v, opt_key) ==
    IF ~adjDefined(this, u) \/ ~containsKey(adj(this, u), v)
    THEN Throw(this, "JSNetworkXError")
    ELSE remove_edge_impl(this, u, v, opt_key)

MultiDiGraph_remove_edge(this, u, v, opt_key) ==
    IF ~has_node(this, u) \/ ~MultiGraph_has_edge(this, u, v, Null)
    THEN Throw(this, "JSNetworkXError")
    ELSE remove_edge_impl(this, u, v, opt_key)

remove_edge(this, u, v, opt_key) ==
    CASE this.variant = "MultiGraph" -> MultiGraph_remove_edge(this, u, v, opt_key)
      [] this.variant = "MultiDiGraph" -> MultiDiGraph_remove_edge(this, u, v, opt_key)
      [] OTHER -> Graph_remove_edge(this, u, v)

\* ---- the bunch operations; an element e of ebunch is a record
\* [u, v, key, attr], key = Null for a tuple that carries no key.
RECURSIVE Graph_remove_edges_from(_, _)
Graph_remove_edges_from(this, ebunch) ==
    IF ebunch = <<>> THEN Ok(this)
    ELSE LET e == Head(ebunch)
         IN  IF Graph_has_edge(this, e.u, e.v)
             THEN Then(remove_edge_impl(this, e.u, e.v, Null), LAMBDA t1 :
                     Graph_remove_edges_from(t1, Tail(ebunch)))
             ELSE Graph_remove_edges_from(this, Tail(ebunch))

\* MultiGraph.remove_edges_from: only a JSNetworkXError is swallowed.
RECURSIVE MultiGraph_remove_edges_from(_, _)
MultiGraph_remove_edges_from(this, ebunch) ==
    IF ebunch = <<>> THEN Ok(this)
    ELSE LET e == Head(ebunch)
             r == remove_edge_impl(this, e.u, e.v, e.key)
         IN  IF r.err \in {"none", "JSNetworkXError"}
             THEN MultiGraph_remove_edges_from(r.this, Tail(ebunch))
             ELSE r

remove_edges_from(this, ebunch) ==
    IF IsMulti(this) THEN MultiGraph_remove_edges_from(this, ebunch)
    ELSE Graph_remove_edges_from(this, ebunch)

RECURSIVE Graph_add_edges_from(_, _)
Graph_add_edges_from(this, ebunch) ==
    IF ebunch = <<>> THEN Ok(this)
    ELSE LET e == Head(ebunch)
         IN  Then(add_edge(this, e.u, e.v, Null, goog_object_extend(EmptyAttr, e.attr)),
                  LAMBDA t1 : Graph_add_edges_from(t1, Tail(ebunch)))

RECURSIVE MultiGraph_add_edges_from(_, _)
MultiGraph_add_edges_from(this, ebunch) ==
    IF ebunch = <<>> THEN Ok(this)
    ELSE LET e == Head(ebunch)
         IN  Then(add_edge_impl(this, e.u, e.v, e.key, goog_object_extend(EmptyAttr, e.attr)),
                  LAMBDA t1 : MultiGraph_add_edges_from(t1, Tail(ebunch)))

add_edges_from(this, ebunch) ==
    IF IsMulti(this) THEN MultiGraph_add_edges_from(this, ebunch)
    ELSE Graph_add_edges_from(this, ebunch)

\* ---- reverse(false): succ_ and pred_ change places, adj_ follows succ_
reverse_inplace(this) == Ok([this EXCEPT !.adj_ = this.pred_, !.pred_ = this.adj_])

\* ---- edges
\* what getEntryIterator() yields when run to its end on a map that is not
\* changed meanwhile: the entries [key, value] in the order of the cleaned
\* keys array
getEntries(m) ==
    LET c == cleanupKeysArray_(m)
    IN  Table([i \in 1..Len(c.hashes_) |-> c.map_[c.hashes_[i]]])

\* generate_edges_iter, inner level: the neighbours nbrd of n that are not
\* marked seen are visited as [n, nbr, data]
RECURSIVE Graph_edges_visit(_, _, _)
Graph_edges_visit(n, nbrds, seen) ==
    IF nbrds = <<>> THEN <<>>
    ELSE LET nbrd == Head(nbrds)
         IN  (IF ~containsKey(seen, nbrd[1]) THEN <<<<n, nbrd[1], nbrd[2]>>>> ELSE <<>>)
                \o Graph_edges_visit(n, Tail(nbrds), seen)

\* generate_edges_iter, outer level: the (node, neighbour map) entries of
\* adjacency_iter() in turn; n is marked seen once its neighbours are exhausted
RECURSIVE Graph_generate_edges_iter(_, _)
Graph_generate_edges_iter(nds, seen) ==
    IF nds = <<>> THEN <<>>
    ELSE LET nd == Head(nds)
         IN  Graph_edges_visit(nd[1], getEntries(nd[2]), seen)
                \o Graph_generate_edges_iter(Tail(nds), set(seen, nd[1], TRUE))

\* Graph.edges(null, true): the triples [u, v, data]; data is the reference
\* held by the adjacency entry
Graph_edges(this) == Graph_generate_edges_iter(getEntries(this.adj_), newNodeMap_)

\* MultiGraph.edges(null, true, true): each triple [n, nbr, key-map] of the
\* Graph iterator is expanded into one [n, nbr, key, data] per entry of the
\* key-map
RECURSIVE MultiGraph_edges_expand(_, _)
MultiGraph_edges_expand(this, nds) ==
    IF nds = <<>> THEN <<>>
    ELSE LET nd == Head(nds)
             edatas == getEntries(this.heap[nd[3]])
         IN  Table([i \in 1..Len(edatas) |->
                    <<nd[1], nd[2], edatas[i][1], edatas[i][2]>>])
                \o MultiGraph_edges_expand(this, Tail(nds))

MultiGraph_edges(this) == MultiGraph_edges_expand(this, Graph_edges(this))

\* DiGraph.edges_iter calls generate_edges_iter(opt_nbunch, opt_data, true,
\* false), which walks pred_; the function applied to each neighbour entry
\* calls visit(n, nbrd) and returns nothing, so no edge is yielded.
DiGraph_generate_edges_iter(this, opt_pred, opt_succ) ==
    SelectSeq(getEntries(IF opt_pred THEN this.pred_ ELSE this.adj_), LAMBDA nd : FALSE)

DiGraph_edges(this) == DiGraph_generate_edges_iter(this, TRUE, FALSE)

\* MultiDiGraph.generate_edges_iter over succ_: [n, nbr, key, data] for each
\* entry of each key-map of each node
RECURSIVE MultiDiGraph_edges_nbrs(_, _, _)
MultiDiGraph_edges_nbrs(this, n, nbrds) ==
    IF nbrds = <<>> THEN <<>>
    ELSE LET nbrd == Head(nbrds)
             edatas == getEntries(this.heap[nbrd[2]])
         IN  Table([i \in 1..Len(edatas) |-> <<n, nbrd[1], edatas[i][1], edatas[i][2]>>])
                \o MultiDiGraph_edges_nbrs(this, n, Tail(nbrds))

RECURSIVE MultiDiGraph_edges_nodes(_, _)
MultiDiGraph_edges_nodes(this, nds) ==
    IF nds = <<>> THEN <<>>
    ELSE MultiDiGraph_edges_nbrs(this, Head(nds)[1], getEntries(Head(nds)[2]))
            \o MultiDiGraph_edges_nodes(this, Tail(nds))

MultiDiGraph_edges(this) == MultiDiGraph_edges_nodes(this, getEntries(this.adj_))

\* edges_iter(undefined, true) of the four classes, as the edge tuples that
\* clone() hands to add_edges_from: [u, v, data], which carries no key
edges_data(this) ==
    CASE this.variant = "Graph" ->
            LET es == Graph_edges(this)
            IN  Table([i \in 1..Len(es) |->
                    [u |-> es[i][1], v |-> es[i][2], key |-> Null, attr |-> this.heap[es[i][3]]]])
      [] this.variant = "DiGraph" -> DiGraph_edges(this)
      [] this.variant = "MultiGraph" ->
            LET es == MultiGraph_edges(this)
            IN  Table([i \in 1..Len(es) |->
                    [u |-> es[i][1], v |-> es[i][2], key |-> Null, attr |-> es[i][4]]])
      [] OTHER ->
            LET es == MultiDiGraph_edges(this)
            IN  Table([i \in 1..Len(es) |->
                    [u |-> es[i][1], v |-> es[i][2], key |-> Null, attr |-> es[i][4]]])

\* ---- clone
\* a graph of the class with new, empty maps and attr as its graph_
EmptyGraph(class, attr) ==
    [variant |-> class, nodes_ |-> newNodeMap_, adj_ |-> newNodeMap_,
     pred_ |-> newNodeMap_, heap |-> <<>>, graph_ |-> attr]

\* new Graph(null, opt_attr), new MultiGraph(null, opt_attr): graph_ is {}
\* extended by a copy of opt_attr
Graph_new(class, opt_attr) == Ok(EmptyGraph(class, goog_object_extend(EmptyAttr, opt_attr)))

\* new DiGraph(null, opt_attr), new MultiDiGraph(null, opt_attr): opt_attr is
\* written into this.graph_ while that is still the prototype's null (a
\* TypeError when opt_attr has a key), and graph_ is set to {} afterwards
DiGraph_new(class, opt_attr) ==
    IF DOMAIN opt_attr # {} THEN Throw(EmptyGraph(class, EmptyAttr), "TypeError")
    ELSE Ok(EmptyGraph(class, EmptyAttr))

\* new Graph(opt_data), new MultiGraph(opt_data) with a graph opt_data:
\* graph_ is {} extended by a copy of opt_data.graph_, while nodes_ and adj_
\* are assigned opt_data's own maps
Graph_from(class, opt_data) ==
    Ok([variant |-> class, nodes_ |-> opt_data.nodes_, adj_ |-> opt_data.adj_,
        pred_ |-> newNodeMap_, heap |-> opt_data.heap,
        graph_ |-> goog_object_extend(EmptyAttr, opt_data.graph_)])

\* the objects of opt_data that the new graph holds as well: both maps, and
\* with adj_ every edge object
Graph_from_shared == {"nodes_", "adj_", "heap"}

\* new this.constructor(null, opt_attr)
constructor(class, opt_attr) ==
    IF class \in {"DiGraph", "MultiDiGraph"} THEN DiGraph_new(class, opt_attr)
    ELSE Graph_new(class, opt_attr)

\* add_nodes_from of (node, attr) tuples: add_node_impl(nn, attr) for each
RECURSIVE add_nodes_from(_, _)
add_nodes_from(this, nodes) ==
    IF nodes = <<>> THEN Ok(this)
    ELSE LET nn == Head(nodes)[1]
             ndict == Head(nodes)[2]
         IN  Then(add_node_impl(this, nn, goog_object_extend(EmptyAttr, ndict)),
                  LAMBDA t1 : add_nodes_from(t1, Tail(nodes)))

\* clone(): the new graph G (as "this" of the result).  The node and edge
\* records are deep copies, so G holds none of the objects of the original.
clone(this) ==
    Then(constructor(this.variant, this.graph_), LAMBDA G0 :
    Then(add_nodes_from(G0, getEntries(this.nodes_)), LAMBDA G :
        add_edges_from(G, edges_data(this))))

\* the objects of the original that the clone holds as well: none
clone_shared == {}

\* ---- subgraph
\* nbunch_iter(nbunch) for an array of candidate nodes: the array's own
\* iterator (the filter on membership is commented out)
Graph_nbunch_iter(this, opt_nbunch) == opt_nbunch

\* The subgraph loops work on H, the graph being built, and read G, the
\* original, whose key arrays the iterators clean: [H, G, err].
\* inner loop of subgraph: the entries [nbr, data] of G.adj(n); an edge is
\* copied when nbr is a key of H.nodes_
RECURSIVE Graph_subgraph_entries(_, _, _)
Graph_subgraph_entries(st, n, entries) ==
    IF entries = <<>> THEN st
    ELSE LET nbr == Head(entries)[1]
             ref == Head(entries)[2]
             H == st.H
         IN  IF containsKey(H.nodes_, nbr)
             THEN LET H1 == [H EXCEPT !.heap = (ref :> st.G.heap[ref]) @@ @]
                      H2 == SetAdj(H1, n, set(adj(H1, n), nbr, ref))
                  IN  IF ~adjDefined(H2, nbr) THEN [st EXCEPT !.H = H2, !.err = "TypeError"]
                      ELSE Graph_subgraph_entries(
                              [st EXCEPT !.H = SetAdj(H2, nbr, set(adj(H2, nbr), n, ref))],
                              n, Tail(entries))
             ELSE Graph_subgraph_entries(st, n, Tail(entries))

\* outer loop: H.adj_ gets a new map for n, then the neighbours of n in G are
\* walked; G.adj_.get(n) is undefined for an n that G does not hold
RECURSIVE Graph_subgraph_bunch(_, _)
Graph_subgraph_bunch(st, bunch) ==
    IF bunch = <<>> \/ st.err # "none" THEN st
    ELSE LET n == Head(bunch)
             H1 == [st.H EXCEPT !.adj_ = set(@, n, newNodeMap_)]
         IN  IF ~adjDefined(st.G, n) THEN [st EXCEPT !.H = H1, !.err = "TypeError"]
             ELSE LET G1 == SetAdj(st.G, n, cleanupKeysArray_(adj(st.G, n)))
                  IN  Graph_subgraph_bunch(
                         Graph_subgraph_entries([st EXCEPT !.H = H1, !.G = G1], n,
                                                getEntries(adj(G1, n))),
                         Tail(bunch))

\* last loop: H.add_node(n, this.node(n)) for each key n of H.adj_
RECURSIVE Graph_subgraph_nodes(_, _)
Graph_subgraph_nodes(st, keys) ==
    IF keys = <<>> \/ st.err # "none" THEN st
    ELSE LET n == Head(keys)
             attr == IF getDefined(st.G.nodes_, n) THEN node(st.G, n) ELSE EmptyAttr
             r == add_node(st.H, n, attr)
         IN  Graph_subgraph_nodes([st EXCEPT !.H = r.this, !.err = r.err], Tail(keys))

\* Graph.subgraph(nbunch): [H |-> the new graph, G |-> the original after the
\* call, err]
Graph_subgraph(this, nbunch) ==
    LET bunch == Graph_nbunch_iter(this, nbunch)
        new == constructor(this.variant, this.graph_)
        st0 == [H |-> new.this, G |-> this, err |-> new.err]
        st1 == Graph_subgraph_bunch(st0, bunch)
    IN  Graph_subgraph_nodes(st1, getKeys(st1.H.adj_))

\* ---- name, clear
\* name(opt_name): graph_['name'] = opt_name
name(this, opt_name) ==
    Ok([this EXCEPT !.graph_ = goog_object_extend(@, [name |-> opt_name])])

\* G.graph()[key] = value: graph() returns the record graph_ itself
graph_write(this, key, value) ==
    Ok([this EXCEPT !.graph_ = goog_object_extend(@, (key :> value))])

\* Graph.clear (Graph, MultiGraph): the name is set to '', adj_ and nodes_
\* are cleared; goog.object.clear is given this['graph'], the accessor
\* function, which has no property to delete, so graph_ stays as it is.
Graph_clear(this) ==
    Then(name(this, ""), LAMBDA t1 :
        Ok([t1 EXCEPT !.adj_ = clear(@), !.nodes_ = clear(@)]))

\* DiGraph.clear: succ_, pred_, nodes_ and graph_ are cleared
DiGraph_clear(this) ==
    Ok([this EXCEPT !.adj_ = clear(@), !.pred_ = clear(@), !.nodes_ = clear(@),
                    !.graph_ = EmptyAttr])

\* MultiDiGraph defines no clear of its own; as with remove_node_impl it is
\* taken as DiGraph's.
MultiDiGraph_clear(this) == DiGraph_clear(this)

graph_clear(this) ==
    CASE this.variant = "DiGraph" -> DiGraph_clear(this)
      [] this.variant = "MultiDiGraph" -> MultiDiGraph_clear(this)
      [] OTHER -> Graph_clear(this)

\* ---- relabel_nodes, copy mode
\* the property name under which a mapping holds the new label of a node:
\* "" + key
PropertyName(key) == key[2]

\* goog.object.get(obj, key, opt_val)
goog_object_get(obj, key, opt_val) ==
    IF PropertyName(key) \in DOMAIN obj THEN obj[PropertyName(key)] ELSE opt_val

\* '(' + G.name() + ')', G.name() being graph_['name'] || ''
ParenName(this) ==
    <<"(", IF "name" \in DOMAIN this.graph_ THEN this.graph_["name"] ELSE "", ")">>

\* an attribute record used as an edge key: the map hashes it by a uid of
\* its own, here the position i of its edge
ObjectKey(i) == <<"object", i>>

\* the edge tuples that relabel_copy_ hands to H.add_edges_from.
\* Graph, DiGraph: edges_iter(true) gives [u, v, data].  MultiGraph:
\* edges_iter(true, true) gives [u, v, key, data].  MultiDiGraph:
\* edges_iter(true, true) passes no opt_keys on and gives [u, v, data], so
\* d[2], the record, is handed on as the key and d[3], nothing, as the data.
relabel_copy_edges(G, mapping) ==
    CASE G.variant = "Graph" ->
            LET es == Graph_edges(G)
            IN  Table([i \in 1..Len(es) |->
                    [u |-> goog_object_get(mapping, es[i][1], es[i][1]),
                     v |-> goog_object_get(mapping, es[i][2], es[i][2]),
                     key |-> Null, attr |-> G.heap[es[i][3]]]])
      [] G.variant = "DiGraph" ->
            LET es == DiGraph_edges(G)
            IN  Table([i \in 1..Len(es) |->
                    [u |-> goog_object_get(mapping, es[i][1], es[i][1]),
                     v |-> goog_object_get(mapping, es[i][2], es[i][2]),
                     key |-> Null, attr |-> G.heap[es[i][3]]]])
      [] G.variant = "MultiGraph" ->
            LET es == MultiGraph_edges(G)
            IN  Table([i \in 1..Len(es) |->
                    [u |-> goog_object_get(mapping, es[i][1], es[i][1]),
                     v |-> goog_object_get(mapping, es[i][2], es[i][2]),
                     key |-> es[i][3], attr |-> es[i][4]]])
      [] OTHER ->
            LET es == MultiDiGraph_edges(G)
            IN  Table([i \in 1..Len(es) |->
                    [u |-> goog_object_get(mapping, es[i][1], es[i][1]),
                     v |-> goog_object_get(mapping, es[i][2], es[i][2]),
                     key |-> ObjectKey(i), attr |-> EmptyAttr]])

\* add_nodes_from of plain nodes: add_node(n, {}) for a node that is new,
\* nothing for one that is present
RECURSIVE add_nodes_from_plain(_, _)
add_nodes_from_plain(this, nodes) ==
    IF nodes = <<>> THEN Ok(this)
    ELSE LET n == Head(nodes)
         IN  IF ~has_node(this, n)
             THEN Then(add_node(this, n, EmptyAttr),
                       LAMBDA t1 : add_nodes_from_plain(t1, Tail(nodes)))
             ELSE add_nodes_from_plain(this, Tail(nodes))

\* relabel_copy_(G, mapping): the new graph H (as "this" of the result)
relabel_copy_(G, mapping) ==
    LET keys == getKeys(G.nodes_)
        entries == getEntries(G.nodes_)
    IN  Then(constructor(G.variant, G.graph_), LAMBDA H0 :
        Then(name(H0, ParenName(G)), LAMBDA H1 :
        Then(add_edges_from(H1, relabel_copy_edges(G, mapping)), LAMBDA H2 :
        Then(add_nodes_from_plain(H2,
                Table([i \in 1..Len(keys) |-> goog_object_get(mapping, keys[i], keys[i])])),
             LAMBDA H3 :
            add_nodes_from(H3,
                Table([i \in 1..Len(entries) |->
                    <<goog_object_get(mapping, entries[i][1], entries[i][1]),
                      entries[i][2]>>]))))))

\* the objects of G that H holds as well: none
relabel_copy_shared == {}

\* ---- degree, size
\* addAll(iterator): set(entry[0], entry[1]) for each entry in turn
RECURSIVE addAll(_, _)
addAll(m, entries) ==
    IF entries = <<>> THEN m
    ELSE addAll(set(m, Head(entries)[1], Head(entries)[2]), Tail(entries))

\* goog.math.sum of an array
RECURSIVE goog_math_sum(_)
goog_math_sum(values) ==
    IF values = <<>> THEN 0 ELSE Head(values) + goog_math_sum(Tail(values))

\* Graph.count_edges(n)(0, nbrs): the count of the neighbour map, and one
\* more when n is its own neighbour
Graph_count_edges(n, nbrs) == getCount(nbrs) + (IF containsKey(nbrs, n) THEN 1 ELSE 0)

\* degree_iter() without a bunch: [n, degree] for each entry of adj_
Graph_degree_iter(this) ==
    LET nodes_nbrs == getEntries(this.adj_)
    IN  Table([i \in 1..Len(nodes_nbrs) |->
            <<nodes_nbrs[i][1], Graph_count_edges(nodes_nbrs[i][1], nodes_nbrs[i][2])>>])

\* degree(n) of a node n of the graph: degree_iter(n).next()[1]
Graph_degree(this, n) == Graph_count_edges(n, adj(this, n))

\* degree(): the map node -> degree
Graph_degree_all(this) == addAll(newNodeMap_, Graph_degree_iter(this))

\* size(): Math.floor of half the sum of the values of degree()
Graph_size(this) == goog_math_sum(getValues(Graph_degree_all(this))) \div 2

\* A read-only call returns [err |-> "none" or the error thrown, value |-> what
\* it returned].
Value(v) == [err |-> "none", value |-> v]
Raise(e) == [err |-> e, value |-> 0]

\* DiGraph.generate_degree_iter stores the adjacency iterator in node_nbrs
\* and hands nodes_nbrs, which is still null, to goog.iter.map: the call
\* throws a TypeError for every bunch and every direction.
DiGraph_generate_degree_iter(this, opt_pred, opt_succ) == Raise("TypeError")

DiGraph_degree_iter(this) == DiGraph_generate_degree_iter(this, TRUE, TRUE)
DiGraph_in_degree_iter(this) == DiGraph_generate_degree_iter(this, TRUE, FALSE)
DiGraph_out_degree_iter(this) == DiGraph_generate_degree_iter(this, FALSE, TRUE)

\* degree(n), in_degree(n), out_degree(n): the second component of the first
\* element of the iterator
DiGraph_degree(this, n) == DiGraph_degree_iter(this)
DiGraph_in_degree(this, n) == DiGraph_in_degree_iter(this)
DiGraph_out_degree(this, n) == DiGraph_out_degree_iter(this)

\* ---- relabel_nodes, in place: the order in which the nodes are rewritten
\* the labels a mapping of an in-place relabelling is made of: strings
Labels == {Str(i) : i \in 1..MaxLabel}

\* the mappings of an in-place relabelling: the partial dictionaries from
\* labels to labels
InplaceMappings == UNION {[D -> Labels] : D \in SUBSET (1..MaxLabel)}

\* the elements of a set of numbers in ascending order
RECURSIVE Ascending(_)
Ascending(S) ==
    IF S = {} THEN <<>>
    ELSE LET m == CHOOSE x \in S : \A y \in S : x <= y
         IN  <<m>> \o Ascending(S \ {m})

\* goog.object.getKeys(mapping): the property names, which are strings
goog_object_getKeys(mapping) ==
    LET ks == Ascending(DOMAIN mapping)
    IN  Table([i \in 1..Len(ks) |-> Str(ks[i])])

\* jsnx.helper.items(mapping): the pairs [old, new], as edge tuples
items(mapping) ==
    LET ks == Ascending(DOMAIN mapping)
    IN  Table([i \in 1..Len(ks) |->
            [u |-> Str(ks[i]), v |-> mapping[ks[i]], key |-> Null, attr |-> EmptyAttr]])

\* old_labels.intersection(mapping): the values of the mapping that the set
\* of its keys contains; the set tells a string from a number
Set_intersection(mapping) ==
    {mapping[k] : k \in {j \in DOMAIN mapping :
                            mapping[j][1] = "string" /\ mapping[j][2] \in DOMAIN mapping}}

\* jsnx.classes.DiGraph(ebunch) for an edge list: an empty DiGraph, then
\* add_edges_from(ebunch)
DiGraph_from_edges(ebunch) ==
    Then(constructor("DiGraph", EmptyAttr), LAMBDA D0 : add_edges_from(D0, ebunch))

\* selfloop_edges(): [n, n] for each entry of adjacency_iter() whose
\* neighbour map holds n itself
selfloop_edges(this) ==
    LET nds == SelectSeq(getEntries(this.adj_), LAMBDA nd : containsKey(nd[2], nd[1]))
    IN  Table([i \in 1..Len(nds) |->
            [u |-> nds[i][1], v |-> nds[i][1], key |-> Null, attr |-> EmptyAttr]])

\* the successors of x in D
Successors(D, x) == IF adjDefined(D, x) THEN keySet(adj(D, x)) ELSE {}

\* S and what is reached from S in at most k steps
RECURSIVE ReachableFrom(_, _, _)
ReachableFrom(D, S, k) ==
    IF k = 0 THEN S
    ELSE ReachableFrom(D, S \cup UNION {Successors(D, x) : x \in S}, k - 1)

HasCycle(D) ==
    \E x \in keySet(D.nodes_) :
        x \in ReachableFrom(D, Successors(D, x), getCount(D.nodes_))

\* jsnx.algorithms.dag.topological_sort(D): JSNetworkXUnfeasible when D has
\* a cycle, otherwise the nodes of D in an order in which every edge leads
\* from an earlier node to a later one
topological_sort(D) ==
    IF HasCycle(D) THEN Raise("JSNetworkXUnfeasible")
    ELSE LET ns == keySet(D.nodes_)
             n == Cardinality(ns)
         IN  Value(CHOOSE order \in [1..n -> ns] :
                    /\ \A i \in 1..n, j \in 1..n : order[i] = order[j] => i = j
                    /\ \A i \in 1..n, j \in 1..n :
                            order[j] \in Successors(D, order[i]) => i < j)

\* nodes.reverse()
reverse(nodes) == Table([i \in 1..Len(nodes) |-> nodes[Len(nodes) + 1 - i]])

\* relabel_inplace_, up to the loop that rewrites the nodes: the order
\* "nodes" of the rewrite, or the error thrown instead.  An error of
\* topological_sort other than JSNetworkXUnfeasible is swallowed by the
\* catch block, and nodes.reverse() then fails on the undefined nodes.
relabel_inplace_order(mapping) ==
    IF Set_intersection(mapping) # {}
    THEN LET r == Then(DiGraph_from_edges(items(mapping)), LAMBDA D :
                        remove_edges_from(D, selfloop_edges(D)))
         IN  IF r.err # "none" THEN Raise(r.err)
             ELSE LET nodes == topological_sort(r.this)
                  IN  IF nodes.err = "JSNetworkXUnfeasible"
                      THEN Raise("JSNetworkXUnfeasible")
                      ELSE IF nodes.err # "none" THEN Raise("TypeError")
                      ELSE Value(reverse(nodes.value))
    ELSE Value(goog_object_getKeys(mapping))

\* the edge tuples that the rewrite of old records before it removes old:
\* G.edges(old, true) with new_ in old's place, in the multi classes
\* G.edges(old, true, true) with the keys, and in the directed classes the
\* tuples of G.in_edges as well.  Both DiGraph iterators yield nothing.
relabel_inplace_edges(G, old, new_) ==
    IF ~adjDefined(G, old) \/ (IsDirected(G) /\ ~predDefined(G, old))
    THEN Raise("TypeError")
    ELSE CASE G.variant = "Graph" ->
                LET es == Graph_edges_visit(old, getEntries(adj(G, old)), newNodeMap_)
                IN  Value(Table([i \in 1..Len(es) |->
                        [u |-> new_, v |-> es[i][2], key |-> Null,
                         attr |-> G.heap[es[i][3]]]]))
           [] G.variant = "DiGraph" -> Value(<<>>)
           [] G.variant = "MultiGraph" ->
                LET es == MultiGraph_edges_expand(G,
                            Graph_edges_visit(old, getEntries(adj(G, old)), newNodeMap_))
                IN  Value(Table([i \in 1..Len(es) |->
                        [u |-> new_, v |-> es[i][2], key |-> es[i][3], attr |-> es[i][4]]]))
           [] OTHER ->
                LET out == MultiDiGraph_edges_nbrs(G, old, getEntries(adj(G, old)))
                    in == MultiDiGraph_edges_nbrs(G, old, getEntries(pred(G, old)))
                IN  Value(Table([i \in 1..Len(out) |->
                            [u |-> new_, v |-> out[i][2], key |-> out[i][3],
                             attr |-> out[i][4]]])
                          \o Table([i \in 1..Len(in) |->
                            [u |-> in[i][2], v |-> new_, key |-> in[i][3],
                             attr |-> in[i][4]]]))

\* the loop of relabel_inplace_ over nodes: a label that the mapping has no
\* entry for is passed over; an old label that is not a node of G is a
\* JSNetworkXError; otherwise new_ is added with old's attributes, old's
\* edges are recorded, old is removed and the recorded edges are added
RECURSIVE relabel_inplace_rewrite(_, _, _)
relabel_inplace_rewrite(G, mapping, nodes) ==
    IF nodes = <<>> THEN Ok(G)
    ELSE LET old == Head(nodes)
         IN  IF PropertyName(old) \notin DOMAIN mapping
             THEN relabel_inplace_rewrite(G, mapping, Tail(nodes))
             ELSE IF ~has_node(G, old) THEN Throw(G, "JSNetworkXError")
             ELSE Then(add_node(G, mapping[PropertyName(old)], node(G, old)), LAMBDA G1 :
                    LET new_edges == relabel_inplace_edges(G1, old, mapping[PropertyName(old)])
                    IN  IF new_edges.err # "none" THEN Throw(G1, new_edges.err)
                        ELSE Then(remove_node(G1, old), LAMBDA G2 :
                             Then(add_edges_from(G2, new_edges.value), LAMBDA G3 :
                                relabel_inplace_rewrite(G3, mapping, Tail(nodes)))))

\* A relabel_inplace_ that hands G back as it found it when the rewrite
\* throws.
relabel_inplace_Atomic(G, mapping) ==
    LET nodes == relabel_inplace_order(mapping)
        r == relabel_inplace_rewrite(G, mapping, nodes.value)
    IN  IF nodes.err # "none" THEN Throw(G, nodes.err)
        ELSE IF r.err # "none" THEN Throw(G, r.err)
        ELSE r

\* relabel_inplace_(G, mapping): G as the call leaves it, and the error
relabel_inplace_(G, mapping) ==
    LET nodes == relabel_inplace_order(mapping)
    IN  IF nodes.err # "none" THEN Throw(G, nodes.err)
        ELSE relabel_inplace_rewrite(G, mapping, nodes.value)

\* ---- convert_node_labels_to_integers
\* MultiGraph.count_edges(n)(0, nbrs): goog.iter.reduce hands its callback
\* the running value first, so the callback's data is the number 0 and
\* data.getCount() is a TypeError as soon as nbrs has an entry
MultiGraph_count_edges(n, nbrs) ==
    IF getCount(nbrs) > 0 THEN Raise("TypeError") ELSE Value(0)

\* MultiGraph.degree_iter() without a bunch, run to its end
MultiGraph_degree_iter(this) ==
    LET nodes_nbrs == getEntries(this.adj_)
        degs == Table([i \in 1..Len(nodes_nbrs) |->
                    MultiGraph_count_edges(nodes_nbrs[i][1], nodes_nbrs[i][2])])
    IN  IF \E i \in DOMAIN degs : degs[i].err # "none" THEN Raise("TypeError")
        ELSE Value(Table([i \in 1..Len(nodes_nbrs) |->
                    <<nodes_nbrs[i][1], degs[i].value>>]))

\* MultiDiGraph.generate_degree_iter stores the adjacency iterator in
\* node_nbrs and hands nodes_nbrs, which is null, to goog.iter.map
MultiDiGraph_generate_degree_iter(this, opt_pred, opt_succ) == Raise("TypeError")

MultiDiGraph_degree_iter(this) == MultiDiGraph_generate_degree_iter(this, TRUE, TRUE)

\* goog.iter.toArray(G.degree_iter()): the pairs [node, degree]
degree_iter(this) ==
    CASE this.variant = "Graph" -> Value(Graph_degree_iter(this))
      [] this.variant = "DiGraph" -> DiGraph_degree_iter(this)
      [] this.variant = "MultiGraph" -> MultiGraph_degree_iter(this)
      [] OTHER -> MultiDiGraph_degree_iter(this)

Orderings == {"default", "sorted", "increasing degree", "decreasing degree"}

FirstLabels == 0..MaxFirstLabel

\* array.sort(compare) for a comparison by rank (rank[i] belongs to
\* array[i]): the arrangements of array in which the ranks do not decrease.
\* Which of them the sort returns when ranks are equal is up to the engine.
sort(array, rank) ==
    {Table([i \in 1..Len(array) |-> array[p[i]]]) :
        p \in {q \in Permutations(1..Len(array)) :
                \A i \in 1..Len(array), j \in 1..Len(array) :
                    i < j => rank[q[i]] <= rank[q[j]]}}

\* the loops "mapping[nodes[i]] = j": the property named after nodes[i]
\* gets first label + i; a later node of the same name overwrites
integer_mapping(nodes, opt_first_label) ==
    Table([name_ \in {PropertyName(nodes[i]) : i \in DOMAIN nodes} |->
        Num(opt_first_label - 1 +
            CHOOSE i \in DOMAIN nodes :
                /\ PropertyName(nodes[i]) = name_
                /\ \A j \in DOMAIN nodes : PropertyName(nodes[j]) = name_ => j <= i)])

\* the node orders that an ordering can give: G.nodes(); G.nodes().sort(),
\* which compares the nodes' strings (a label's string is ordered as its
\* property name); the nodes of the sorted [node, degree] pairs
node_orders(G, opt_ordering) ==
    LET nodes == getKeys(G.nodes_)
        dv_pairs == degree_iter(G)
    IN  CASE opt_ordering = "default" -> {Value(nodes)}
          [] opt_ordering = "sorted" ->
                {Value(o) : o \in sort(nodes,
                    Table([i \in DOMAIN nodes |-> PropertyName(nodes[i])]))}
          [] opt_ordering \in {"increasing degree", "decreasing degree"} ->
                IF dv_pairs.err # "none" THEN {Raise(dv_pairs.err)}
                ELSE {Value(Table([i \in DOMAIN o |-> o[i][1]])) :
                        o \in sort(dv_pairs.value,
                            Table([i \in DOMAIN dv_pairs.value |->
                                IF opt_ordering = "increasing degree"
                                THEN dv_pairs.value[i][2]
                                ELSE 0 - dv_pairs.value[i][2]]))}
          [] OTHER -> {Raise("JSNetworkXError")}

\* convert_node_labels_to_integers(G, opt_first_label, opt_ordering): the
\* results the call can have, each the new graph H (as "this") and the error
convert_node_labels_to_integers(G, opt_first_label, opt_ordering) ==
    {IF o.err # "none" THEN Throw(G, o.err)
     ELSE Then(relabel_copy_(G, integer_mapping(o.value, opt_first_label)), LAMBDA H :
            name(H, <<ParenName(G), "_with_int_labels">>)) :
        o \in node_orders(G, opt_ordering)}

\* ---- between calls
\* No iterator outlives a graph call, so the version_ a map is left with is
\* not observable by the next call: it is stored as 0.  Objects that nothing
\* refers to any more are dropped from the heap.
Unversion(m) == [m EXCEPT !.version_ = 0]

UnversionNested(m) ==
    [m EXCEPT !.version_ = 0,
              !.map_ = Table([h \in DOMAIN m.map_ |->
                            <<m.map_[h][1], Unversion(m.map_[h][2])>>])]

\* the references held in the adjacency entries of m
RefsOf(m) == UNION {{m.map_[h][2].map_[k][2] : k \in DOMAIN m.map_[h][2].map_} :
                        h \in DOMAIN m.map_}

\* References are opaque: only their equality is observable.  Between calls
\* they are renamed 0, 1, ... in the order of the first adjacency entry
\* (by node, then neighbour; adj_ before pred_) that holds them.
\* an adjacency entry is named <<side, node hash, neighbour hash>>, side 0 for
\* adj_ and 1 for pred_
UsesOf(this, r) ==
    UNION {{<<0, h, k>> : k \in {j \in DOMAIN this.adj_.map_[h][2].map_ :
                                    this.adj_.map_[h][2].map_[j][2] = r}} :
                h \in DOMAIN this.adj_.map_}
    \cup
    UNION {{<<1, h, k>> : k \in {j \in DOMAIN this.pred_.map_[h][2].map_ :
                                    this.pred_.map_[h][2].map_[j][2] = r}} :
                h \in DOMAIN this.pred_.map_}

EntryBefore(x, y) ==
    \/ x[1] < y[1]
    \/ x[1] = y[1] /\ x[2] < y[2]
    \/ x[1] = y[1] /\ x[2] = y[2] /\ x[3] < y[3]

FirstUse(this, r) ==
    CHOOSE x \in UsesOf(this, r) : \A y \in UsesOf(this, r) : x = y \/ EntryBefore(x, y)

Rename(m, f) ==
    [m EXCEPT !.map_ = Table([h \in DOMAIN m.map_ |->
        <<m.map_[h][1],
          [m.map_[h][2] EXCEPT !.map_ = Table([k \in DOMAIN m.map_[h][2].map_ |->
                <<m.map_[h][2].map_[k][1], f[m.map_[h][2].map_[k][2]]>>])]>>])]

Settle(this) ==
    LET live == RefsOf(this.adj_) \cup RefsOf(this.pred_)
        first == Table([r \in live |-> FirstUse(this, r)])
        rename == Table([r \in live |->
                    Cardinality({q \in live : EntryBefore(first[q], first[r])})])
        old == Table([i \in 0..(Cardinality(live) - 1) |->
                    CHOOSE r \in live : rename[r] = i])
    IN  [this EXCEPT
            !.nodes_ = Unversion(@),
            !.adj_ = Rename(UnversionNested(@), rename),
            !.pred_ = Rename(UnversionNested(@), rename),
            !.heap = Table([i \in DOMAIN old |->
                        IF IsMulti(this) THEN Unversion(this.heap[old[i]])
                        ELSE this.heap[old[i]]])]

\* ------------------------------------------------------------------ state
VARIABLES
    variant,  \* the class of the graph object
    nodes_,   \* its node map
    adj_,     \* its adjacency map (succ_ in the directed classes)
    pred_,    \* its predecessor map (directed classes)
    heap,     \* the edge objects its adjacency entries refer to
    graph_,   \* its graph-attribute record
    calls,    \* the number of calls made on the graph
    hm,       \* the stand-alone HashMap
    iter,     \* the iterator created on hm (or NoIter)
    mres,     \* what the last map call did
    inserted  \* the keys hm holds, in the order of their latest insertion

gvars == <<variant, nodes_, adj_, pred_, heap, graph_, calls>>
mapvars == <<hm, iter, mres, inserted>>
vars == <<variant, nodes_, adj_, pred_, heap, graph_, calls, hm, iter, mres, inserted>>

Variants == {"Graph", "DiGraph", "MultiGraph", "MultiDiGraph"}

This == [variant |-> variant, nodes_ |-> nodes_, adj_ |-> adj_, pred_ |-> pred_,
         heap |-> heap, graph_ |-> graph_]

\* new Graph(), new DiGraph(), ...: empty maps
GraphNew(class) ==
    /\ variant = class
    /\ nodes_ = newNodeMap_
    /\ adj_ = newNodeMap_
    /\ pred_ = newNodeMap_
    /\ heap = <<>>
    /\ graph_ = EmptyAttr
    /\ calls = 0

MapNew ==
    /\ hm = EmptyHashMap
    /\ iter = NoIter
    /\ mres = [op |-> "new", kind |-> "ok", stale |-> FALSE]
    /\ inserted = <<>>

\* the graph after a call that returned or threw r
Return(r) ==
    \E t \in {Settle(r.this)} :
        /\ variant' = variant
        /\ nodes_' = t.nodes_
        /\ adj_' = t.adj_
        /\ pred_' = t.pred_
        /\ heap' = t.heap
        /\ graph_' = t.graph_

\* The model's bound on parallel edges: a key-map holds at most MaxParallel keys.
WithinBounds(t) ==
    IsMulti(t) => \A r \in DOMAIN t.heap : getCount(t.heap[r]) <= MaxParallel

\* the key arguments a call can carry: the simple classes take no key
AllKeyArgs == KeyInputs \cup {Null}
KeyArgs == IF variant \in {"MultiGraph", "MultiDiGraph"} THEN AllKeyArgs ELSE {Null}

Edges == [u : Nodes, v : Nodes, key : AllKeyArgs, attr : EdgeAttrInputs]

Bunches(S) == UNION {[1..n -> S] : n \in 1..MaxBunch}

\* one more call, whose outcome r stays within the bounds
Call(r) ==
    /\ calls < MaxCalls
    /\ calls' = calls + 1
    /\ WithinBounds(r.this)
    /\ Return(r)

AddNode(n, attr) ==
    /\ UNCHANGED mapvars
    /\ \E r \in {add_node(This, n, attr)} : Call(r)

AddEdge(u, v, key, attr) ==
    /\ UNCHANGED mapvars
    /\ key \in KeyArgs
    /\ \E r \in {add_edge(This, u, v, key, attr)} : Call(r)

AddEdgesFrom(ebunch) ==
    /\ UNCHANGED mapvars
    /\ \A i \in DOMAIN ebunch : ebunch[i].key \in KeyArgs
    /\ \E r \in {add_edges_from(This, ebunch)} : Call(r)

RemoveNode(n) ==
    /\ UNCHANGED mapvars
    /\ \E r \in {remove_node(This, n)} : Call(r)

RemoveNodesFrom(nodes) ==
    /\ UNCHANGED mapvars
    /\ \E r \in {remove_nodes_from(This, nodes)} : Call(r)

RemoveEdge(u, v, key) ==
    /\ UNCHANGED mapvars
    /\ key \in KeyArgs
    /\ \E r \in {remove_edge(This, u, v, key)} : Call(r)

RemoveEdgesFrom(ebunch) ==
    /\ UNCHANGED mapvars
    /\ \A i \in DOMAIN ebunch : ebunch[i].key \in KeyArgs
    /\ \E r \in {remove_edges_from(This, ebunch)} : Call(r)

Reverse ==
    /\ UNCHANGED mapvars
    /\ variant \in {"DiGraph", "MultiDiGraph"}
    /\ \E r \in {reverse_inplace(This)} : Call(r)

Init == (\E class \in Variants : GraphNew(class)) /\ MapNew

Next ==
    \/ \E n \in Nodes : AddNode(n, EmptyAttr)
    \/ \E u \in Nodes, v \in Nodes, key \in AllKeyArgs, attr \in EdgeAttrInputs :
            AddEdge(u, v, key, attr)
    \/ \E ebunch \in Bunches(Edges) : AddEdgesFrom(ebunch)
    \/ \E n \in Nodes : RemoveNode(n)
    \/ \E nodes \in Bunches(Nodes) : RemoveNodesFrom(nodes)
    \/ \E u \in Nodes, v \in Nodes, key \in AllKeyArgs : RemoveEdge(u, v, key)
    \/ \E ebunch \in Bunches(Edges) : RemoveEdgesFrom(ebunch)
    \/ Reverse

Spec == Init /\ [][Next]_vars

\* ---- graphs whose nodes carry attributes
NextAttr ==
    \/ \E n \in Nodes, attr \in NodeAttrInputs : AddNode(n, attr)
    \/ \E u \in Nodes, v \in Nodes : AddEdge(u, v, Null, EmptyAttr)
    \/ \E n \in Nodes : RemoveNode(n)

SpecAttr == Init /\ [][NextAttr]_vars

\* ---- graphs with a name that are cleared
GraphNames == {"g"}
GraphAttrKeys == {"a"}

SetName(opt_name) ==
    /\ UNCHANGED mapvars
    /\ \E r \in {name(This, opt_name)} : Call(r)

GraphWrite(key, value) ==
    /\ UNCHANGED mapvars
    /\ \E r \in {graph_write(This, key, value)} : Call(r)

Clear ==
    /\ UNCHANGED mapvars
    /\ \E r \in {graph_clear(This)} : Call(r)

NextClear ==
    \/ \E n \in Nodes : AddNode(n, EmptyAttr)
    \/ \E u \in Nodes, v \in Nodes : AddEdge(u, v, Null, EmptyAttr)
    \/ \E opt_name \in GraphNames : SetName(opt_name)
    \/ \E key \in GraphAttrKeys : GraphWrite(key, "x")
    \/ Clear

SpecClear == Init /\ [][NextClear]_vars

\* ---- graphs with string labels that are relabelled in place
RelabelAttrInputs == {<<>>, [a |-> 1]}

RelabelAddNode(n, attr) == calls < MaxRelabelCalls /\ AddNode(n, attr)

RelabelAddEdge(u, v) == calls < MaxRelabelCalls /\ AddEdge(u, v, Null, EmptyAttr)

NextRelabel ==
    \/ \E n \in Labels, attr \in RelabelAttrInputs : RelabelAddNode(n, attr)
    \/ \E u \in Labels, v \in Labels : RelabelAddEdge(u, v)

SpecRelabel == Init /\ [][NextRelabel]_vars

\* ---- the stand-alone map
MapInit == GraphNew("Graph") /\ MapNew

MapSet(key, value) ==
    /\ UNCHANGED gvars
    /\ hm.version_ < MaxVersion
    /\ hm' = set(hm, key, value)
    /\ iter' = IF iter.type # "none" /\ ~containsKey(hm, key)
               THEN [iter EXCEPT !.stale = TRUE] ELSE iter
    /\ mres' = [op |-> "set", kind |-> "ok", stale |-> FALSE]
    /\ inserted' = IF containsKey(hm, key) THEN inserted ELSE Append(inserted, key)

MapRemove(key) ==
    /\ UNCHANGED gvars
    /\ hm.version_ < MaxVersion
    /\ hm' = remove(hm, key)
    /\ iter' = IF iter.type # "none" /\ containsKey(hm, key)
               THEN [iter EXCEPT !.stale = TRUE] ELSE iter
    /\ mres' = [op |-> "remove", kind |-> "ok", stale |-> FALSE]
    /\ inserted' = SelectSeq(inserted, LAMBDA k : k # key)

MapClear ==
    /\ UNCHANGED gvars
    /\ hm' = clear(hm)
    /\ iter' = IF iter.type = "none" THEN iter
               ELSE [iter EXCEPT !.map = IF iter.live THEN hm.map_ ELSE @,
                                 !.live = FALSE,
                                 !.stale = @ \/ hm.count_ > 0]
    /\ mres' = [op |-> "clear", kind |-> "ok", stale |-> FALSE]
    /\ inserted' = <<>>

MapIterator(opt_type) ==
    /\ UNCHANGED gvars
    /\ hm' = cleanupKeysArray_(hm)
    /\ iter' = HashMap_iterator(hm, opt_type)
    /\ mres' = [op |-> "iterator", kind |-> "ok", stale |-> FALSE]
    /\ UNCHANGED inserted

MapNext ==
    /\ UNCHANGED gvars
    /\ iter.type # "none"
    /\ LET r == iterNext(hm, iter)
       IN  /\ iter' = r.it
           /\ mres' = [op |-> "next", kind |-> r.kind, stale |-> iter.stale]
    /\ UNCHANGED <<hm, inserted>>

MapNextStep ==
    \/ \E key \in MapKeys, value \in MapVals : MapSet(key, value)
    \/ \E key \in MapKeys : MapRemove(key)
    \/ MapClear
    \/ \E t \in {"key", "value", "entry"} : MapIterator(t)
    \/ MapNext

SpecMap == MapInit /\ [][MapNextStep]_vars

\* --------------------------------------------------------------- properties
\* the neighbour maps stored in an adjacency map
NbrMaps(m) == {m.map_[h][2] : h \in DOMAIN m.map_}

\* v is a key of adj[u] / of pred[u] in the graph t
InAdj(t, u, v) == adjDefined(t, u) /\ containsKey(adj(t, u), v)
InPred(t, u, v) == predDefined(t, u) /\ containsKey(pred(t, u), v)

\* the object an adjacency entry holds
EdgeObject(t, u, v) == t.heap[get(adj(t, u), v)]

\* the object behind a reference, by value: an attribute record, or the
\* entries of a key-map
ValueOf(t, ref) == IF IsMulti(t) THEN t.heap[ref].map_ ELSE t.heap[ref]

\* what a graph holds, without the bookkeeping of its maps: the node
\* attributes, and for each adjacency entry the object it refers to
Content(t) ==
    [nodes |-> {<<n, node(t, n)>> : n \in keySet(t.nodes_)},
     adj |-> {<<u, v, ValueOf(t, get(adj(t, u), v))>> :
                    <<u, v>> \in {e \in Nodes \X Nodes : InAdj(t, e[1], e[2])}},
     pred |-> {<<u, v, ValueOf(t, get(pred(t, u), v))>> :
                    <<u, v>> \in {e \in Nodes \X Nodes : InPred(t, e[1], e[2])}}]

\* C1: the node map and each adjacency map (adj; succ and pred in the
\* directed classes) have the same keys, and every neighbour listed in an
\* adjacency entry is a key of the node map.
C1_NodeAndAdjacencyKeysAgree ==
    /\ keySet(adj_) = keySet(nodes_)
    /\ \A nm \in NbrMaps(adj_) : keySet(nm) \subseteq keySet(nodes_)
    /\ IsDirected(This) =>
            /\ keySet(pred_) = keySet(nodes_)
            /\ \A nm \in NbrMaps(pred_) : keySet(nm) \subseteq keySet(nodes_)

\* C2: in Graph and MultiGraph, v is a key of adj[u] iff u is a key of
\* adj[v], and both entries hold the very same object.
C2_UndirectedSymmetry ==
    ~IsDirected(This) =>
        \A u \in Nodes, v \in Nodes :
            InAdj(This, u, v) =>
                /\ InAdj(This, v, u)
                /\ get(adj(This, u), v) = get(adj(This, v), u)

C4_KeyMapsNonEmpty ==
    IsMulti(This) =>
        /\ \A u \in Nodes, v \in Nodes :
                /\ InAdj(This, u, v) => keySet(EdgeObject(This, u, v)) # {}
                /\ InPred(This, u, v) => keySet(heap[get(pred(This, u), v)]) # {}
        /\ \A u \in Nodes, v \in Nodes, key \in KeyArgs :
                (/\ MultiGraph_has_edge(This, u, v, key)
                 /\ getCount(EdgeObject(This, u, v)) = 1) =>
                    LET t == remove_edge(This, u, v, key).this
                    IN  /\ ~InAdj(t, u, v)
                        /\ IF IsDirected(This) THEN ~InPred(t, v, u) ELSE ~InAdj(t, v, u)

\* a multigraph with a key-map that lost one of its two keys and one whose
\* last key can be removed
C4_Witness ==
    /\ IsMulti(This)
    /\ \E r \in DOMAIN heap : getCount(heap[r]) = 1 /\ Len(heap[r].hashes_) = 2
    /\ \E u \in Nodes, v \in Nodes :
            /\ u # v
            /\ InAdj(This, u, v)
            /\ getCount(EdgeObject(This, u, v)) = 1
            /\ remove_edge(This, u, v, Null).err = "none"

\* the smallest non-negative integer that is not a key of keydict
SmallestUnused(keydict) ==
    CHOOSE k \in 0..getCount(keydict) :
        /\ ~containsKey(keydict, Num(k))
        /\ \A j \in 0..(k - 1) : containsKey(keydict, Num(j))

\* C5: in MultiGraph and MultiDiGraph, add_edge(u, v) without a key gives the
\* new edge the smallest non-negative integer that is not a key of the
\* (u, v) key-map.
C5_AutoKeyIsSmallestUnused ==
    IsMulti(This) =>
        \A u \in Nodes, v \in Nodes :
            LET r == add_edge(This, u, v, Null, EmptyAttr)
                before == IF InAdj(This, u, v) THEN EdgeObject(This, u, v)
                          ELSE newEdgeMap_
            IN  /\ r.err = "none"
                /\ InAdj(r.this, u, v)
                /\ keySet(EdgeObject(r.this, u, v)) \ keySet(before)
                        = {Num(SmallestUnused(before))}

\* C6: in a Graph, remove_node(n) of a present node returns normally; n is
\* then in neither the node map nor adj nor any neighbour map, and the other
\* nodes and the edges not incident to n are as before.
C6_RemoveNodeCompletes ==
    variant = "Graph" =>
        \A n \in Nodes :
            has_node(This, n) =>
                LET r == remove_node(This, n)
                    t == r.this
                IN  /\ r.err = "none"
                    /\ ~has_node(t, n)
                    /\ ~adjDefined(t, n)
                    /\ \A nm \in NbrMaps(t.adj_) : ~containsKey(nm, n)
                    /\ Content(t).nodes = {e \in Content(This).nodes : e[1] # n}
                    /\ Content(t).adj = {e \in Content(This).adj : e[1] # n /\ e[2] # n}

\* C7: in Graph and DiGraph, remove_edge(u, v) of a present edge returns
\* normally and removes both mirror entries; nothing else changes.
C7_RemoveEdgeRemovesBothSides ==
    variant \in {"Graph", "DiGraph"} =>
        \A u \in Nodes, v \in Nodes :
            Graph_has_edge(This, u, v) =>
                LET r == remove_edge(This, u, v, Null)
                    t == r.this
                IN  /\ r.err = "none"
                    /\ ~Graph_has_edge(t, u, v)
                    /\ ~InAdj(t, u, v)
                    /\ IF IsDirected(This) THEN ~InPred(t, v, u) ELSE ~InAdj(t, v, u)
                    /\ Content(t).nodes = Content(This).nodes
                    /\ Content(t).adj =
                            {e \in Content(This).adj :
                                /\ <<e[1], e[2]>> # <<u, v>>
                                /\ IsDirected(This) \/ <<e[1], e[2]>> # <<v, u>>}

\* the edge (u, v) (with the key, when one is given) is in the graph
EdgePresent(t, u, v, key) ==
    IF IsMulti(t) THEN has_node(t, u) /\ has_node(t, v) /\ MultiGraph_has_edge(t, u, v, key)
    ELSE Graph_has_edge(t, u, v)

\* C8: remove_edge(u, v) of an edge that is not in the graph raises the
\* lookup error.
C8_RemoveAbsentEdgeRaises ==
    \A u \in Nodes, v \in Nodes, key \in KeyArgs :
        ~EdgePresent(This, u, v, key) =>
            remove_edge(This, u, v, key).err = "JSNetworkXError"

\* C9: add_node(n, attr) creates an absent node with no neighbours and attr
\* as its record, merges attr into the record of a present node and keeps
\* its edges; a second identical call changes nothing.
C9_AddNodeStoresAndMerges ==
    \A n \in Nodes, attr \in NodeAttrInputs :
        LET r == add_node(This, n, attr)
            t == r.this
        IN  /\ r.err = "none"
            /\ has_node(t, n)
            /\ adjDefined(t, n)
            /\ IF has_node(This, n)
               THEN /\ node(t, n) = goog_object_extend(node(This, n), attr)
                    /\ Content(t).adj = Content(This).adj
                    /\ Content(t).pred = Content(This).pred
               ELSE /\ node(t, n) = attr
                    /\ getCount(adj(t, n)) = 0
                    /\ IsDirected(This) => predDefined(t, n) /\ getCount(pred(t, n)) = 0
            /\ Settle(add_node(t, n, attr).this) = Settle(t)

\* C10: a next() call on an iterator whose map was structurally changed
\* (set of a new key, remove of a present key, clear of a non-empty map)
\* since the iterator was created fails with the 'map has changed' error.
C10_StaleNextFails ==
    (mres.op = "next" /\ mres.stale) => mres.kind = "changed"

\* C11: getKeys(), getValues() and the iterators list the entries of the map
\* in the order of their insertion, a key that was removed and set again
\* counting as inserted when it was last set.
C11_InsertionOrder ==
    LET c == cleanupKeysArray_(hm)
    IN  /\ getKeys(hm) = inserted
        /\ getValues(hm) = Table([i \in 1..Len(inserted) |-> get(hm, inserted[i])])
        /\ Len(c.hashes_) = Len(inserted)
        /\ \A i \in 1..Len(inserted) :
                iterNext(c, [HashMap_iterator(c, "key") EXCEPT !.i = i - 1]).elem
                    = <<inserted[i]>>

\* the number of positions of the sequence es whose element satisfies P
CountIn(es, P(_)) == Cardinality({i \in DOMAIN es : P(es[i])})

\* C12: in Graph and MultiGraph, edges() without a bunch yields each
\* unordered pair {u, v} with v in adj[u] (in MultiGraph each (u, v, key))
\* exactly once, self-loops included, and nothing else.
C12_EdgesExactlyOnce ==
    /\ variant = "Graph" =>
            LET es == Graph_edges(This)
            IN  /\ \A u \in Nodes, v \in Nodes :
                        InAdj(This, u, v) =>
                            CountIn(es, LAMBDA e : {e[1], e[2]} = {u, v}) = 1
                /\ \A i \in DOMAIN es : InAdj(This, es[i][1], es[i][2])
    /\ variant = "MultiGraph" =>
            LET es == MultiGraph_edges(This)
            IN  /\ \A u \in Nodes, v \in Nodes :
                        InAdj(This, u, v) =>
                            \A key \in keySet(EdgeObject(This, u, v)) :
                                CountIn(es, LAMBDA e : {e[1], e[2]} = {u, v} /\ e[3] = key) = 1
                /\ \A i \in DOMAIN es :
                        /\ InAdj(This, es[i][1], es[i][2])
                        /\ containsKey(EdgeObject(This, es[i][1], es[i][2]), es[i][3])

\* the sum of degree(n) over the nodes in S
RECURSIVE SumOfDegrees(_, _)
SumOfDegrees(t, S) ==
    IF S = {} THEN 0
    ELSE LET n == CHOOSE x \in S : TRUE
         IN  Graph_degree(t, n) + SumOfDegrees(t, S \ {n})

\* C13: in a Graph, degree(n) is the number of keys of adj[n] plus one when n
\* has a self-loop, and the sum of the degrees of all nodes is twice the
\* number of edges that edges() returns, which is also 2 * size().
C13_DegreeSum ==
    variant = "Graph" =>
        /\ \A n \in keySet(nodes_) :
                /\ adjDefined(This, n)
                /\ Graph_degree(This, n) =
                        Cardinality(keySet(adj(This, n))) + (IF InAdj(This, n, n) THEN 1 ELSE 0)
        /\ SumOfDegrees(This, keySet(nodes_)) = 2 * Len(Graph_edges(This))
        /\ SumOfDegrees(This, keySet(nodes_)) = 2 * Graph_size(This)

\* the directed edges of the graph t
DirectedEdges(t) == {e \in Nodes \X Nodes : InAdj(t, e[1], e[2])}

\* the sum of f[n] over the nodes in S
RECURSIVE SumOver(_, _)
SumOver(f, S) ==
    IF S = {} THEN 0
    ELSE LET n == CHOOSE x \in S : TRUE
         IN  f[n] + SumOver(f, S \ {n})

\* C14: in a DiGraph, in_degree, out_degree and degree return for every
\* node; the in-degrees and the out-degrees each add up to the number of
\* directed edges, a self-loop counts once in each, and degree(n) is
\* in_degree(n) + out_degree(n).
C14_DirectedDegreeSum ==
    variant = "DiGraph" =>
        LET S == keySet(nodes_)
            in == Table([n \in S |-> DiGraph_in_degree(This, n)])
            out == Table([n \in S |-> DiGraph_out_degree(This, n)])
            deg == Table([n \in S |-> DiGraph_degree(This, n)])
        IN  /\ \A n \in S : in[n].err = "none" /\ out[n].err = "none" /\ deg[n].err = "none"
            /\ SumOver(Table([n \in S |-> in[n].value]), S) = Cardinality(DirectedEdges(This))
            /\ SumOver(Table([n \in S |-> out[n].value]), S) = Cardinality(DirectedEdges(This))
            /\ \A n \in S :
                    /\ in[n].value = Cardinality({u \in Nodes : InPred(This, n, u)})
                    /\ out[n].value = Cardinality({v \in Nodes : InAdj(This, n, v)})
                    /\ deg[n].value = in[n].value + out[n].value

\* The graphs that one structural call (add_node, add_edge, remove_node,
\* remove_edge) on h can leave behind.
Mutations(h) ==
    {add_node(h, n, EmptyAttr).this : n \in Nodes}
    \cup {add_edge(h, e[1], e[2], Null, EmptyAttr).this : e \in Nodes \X Nodes}
    \cup {remove_node(h, n).this : n \in Nodes}
    \cup {remove_edge(h, e[1], e[2], Null).this : e \in Nodes \X Nodes}

\* The graph g once a graph that holds g's objects named in shared has
\* become h1: an object both graphs hold has one state.
OriginalAfter(g, shared, h1) ==
    [variant |-> g.variant,
     nodes_ |-> IF "nodes_" \in shared THEN h1.nodes_ ELSE g.nodes_,
     adj_ |-> IF "adj_" \in shared THEN h1.adj_ ELSE g.adj_,
     pred_ |-> IF "pred_" \in shared THEN h1.pred_ ELSE g.pred_,
     heap |-> IF "heap" \in shared THEN h1.heap ELSE g.heap,
     graph_ |-> IF "graph_" \in shared THEN h1.graph_ ELSE g.graph_]

\* C15: clone() returns a graph with the same nodes, the same edges (in the
\* multi classes the same keys on each pair) and equal attributes, and a
\* later structural call on the clone leaves the original as it was.
C15_CloneEqualAndIndependent ==
    LET r == clone(This)
    IN  /\ r.err = "none"
        /\ Content(r.this) = Content(This)
        /\ \A h1 \in Mutations(r.this) :
                Content(OriginalAfter(This, clone_shared, h1)) = Content(This)

\* C18: after clear() the graph has no nodes and no edges and its
\* graph-attribute record is empty, the name included.
C18_ClearEmptiesEverything ==
    LET r == graph_clear(This)
        t == r.this
    IN  /\ r.err = "none"
        /\ keySet(t.nodes_) = {}
        /\ keySet(t.adj_) = {}
        /\ IsDirected(This) => keySet(t.pred_) = {}
        /\ DOMAIN t.graph_ = {}

\* the node set and the edge set (with the keys, in the multi classes) of t
Structure(t) ==
    [nodes |-> keySet(t.nodes_),
     edges |-> {<<e[1], e[2], IF IsMulti(t) THEN keySet(EdgeObject(t, e[1], e[2])) ELSE {}>> :
                    e \in {x \in Nodes \X Nodes : InAdj(t, x[1], x[2])}}]

\* C16: a Graph or MultiGraph H constructed from a graph G starts with G's
\* nodes and edges; a later structural call on H (clear included) leaves G's
\* node set and edge set as they were, and one on G leaves H's.
C16_CopyConstructionIndependent ==
    variant \in {"Graph", "MultiGraph"} =>
        LET r == Graph_from(variant, This)
            H == r.this
        IN  /\ r.err = "none"
            /\ Structure(H) = Structure(This)
            /\ \A h1 \in Mutations(H) \cup {graph_clear(H).this} :
                    Structure(OriginalAfter(This, Graph_from_shared, h1)) = Structure(This)
            /\ \A g1 \in Mutations(This) \cup {graph_clear(This).this} :
                    Structure(OriginalAfter(H, Graph_from_shared, g1)) = Structure(H)

\* the bunches of candidate nodes given to subgraph
SubBunches == UNION {[1..k -> Nodes] : k \in 0..MaxSubBunch}

\* the members of a sequence
Range(f) == {f[i] : i \in DOMAIN f}

\* C17: in a Graph, subgraph(bunch) returns a graph whose nodes are the
\* members of the bunch that are nodes of G and whose edges are the edges of
\* G between those nodes; nodes of the bunch that G does not hold are dropped
\* without error, and G is not changed.
C17_SubgraphInduced ==
    variant = "Graph" =>
        \A bunch \in SubBunches :
            LET st == Graph_subgraph(This, bunch)
                S == Range(bunch) \cap keySet(nodes_)
            IN  /\ st.err = "none"
                /\ Structure(st.H).nodes = S
                /\ Structure(st.H).edges =
                        {e \in Structure(This).edges : e[1] \in S /\ e[2] \in S}
                /\ Content(st.G) = Content(This)

\* the mappings: the partial dictionaries from node labels to node labels
Mappings == UNION {[D -> Nodes] : D \in SUBSET (1..MaxNode)}

\* m(x): mapping[x] when x is a key of the mapping, x otherwise
Relabelled(mapping, x) == IF x[2] \in DOMAIN mapping THEN mapping[x[2]] ELSE x

\* the pairs (u, v) with v in u's neighbour map
AdjPairs(t) == {e \in Nodes \X Nodes : InAdj(t, e[1], e[2])}

\* C19: copy-mode relabel_nodes(G, mapping) returns a graph H of G's class
\* whose nodes are the m(n) for the nodes n of G and whose edges are the
\* (m(u), m(v)) for the edges (u, v) of G; G is as before, also after a
\* later structural call on H.
C19_RelabelCopy ==
    \A mapping \in Mappings :
        LET r == relabel_copy_(This, mapping)
            H == r.this
        IN  /\ r.err = "none"
            /\ H.variant = variant
            /\ keySet(H.nodes_) = {Relabelled(mapping, n) : n \in keySet(nodes_)}
            /\ AdjPairs(H) = {<<Relabelled(mapping, e[1]), Relabelled(mapping, e[2])>> :
                                e \in AdjPairs(This)}
            /\ \A h1 \in Mutations(H) :
                    Content(OriginalAfter(This, relabel_copy_shared, h1)) = Content(This)

\* the new label of x, when x has one that is not x itself
Renamed(mapping, x) ==
    IF x[2] \in DOMAIN mapping /\ mapping[x[2]] # x THEN {mapping[x[2]]} ELSE {}

\* what is reached from the labels S along the pairs old -> new, old # new
RECURSIVE Orbit(_, _, _)
Orbit(mapping, S, k) ==
    IF k = 0 THEN S
    ELSE Orbit(mapping, S \cup UNION {Renamed(mapping, x) : x \in S}, k - 1)

\* the digraph of the pairs old -> new has a cycle that is not a self-loop
MappingCycle(mapping) ==
    \E x \in Labels : x \in Orbit(mapping, Renamed(mapping, x), MaxLabel)

\* C20: in-place relabel_nodes with a mapping whose pairs old -> new form a
\* cycle that is not a self-loop (the swap {a: b, b: a} for one) raises
\* JSNetworkXUnfeasible.
C20_CyclicMappingUnfeasible ==
    \A mapping \in InplaceMappings :
        MappingCycle(mapping) =>
            relabel_inplace_(This, mapping).err = "JSNetworkXUnfeasible"

\* C21: in-place relabel_nodes with a mapping that has an old label which is
\* not a node of G (and whose pairs form no cycle) raises JSNetworkXError.
C21_MissingOldLabelRaises ==
    \A mapping \in InplaceMappings :
        (~MappingCycle(mapping) /\ \E k \in DOMAIN mapping : ~has_node(This, Str(k))) =>
            relabel_inplace_(This, mapping).err = "JSNetworkXError"

\* every key that the graph t holds in one of its maps
Keys(t) ==
    keySet(t.nodes_) \cup keySet(t.adj_) \cup keySet(t.pred_)
        \cup UNION {keySet(nb) : nb \in NbrMaps(t.adj_) \cup NbrMaps(t.pred_)}

\* the number of edges that adj[u] holds for v
Multiplicity(t, u, v) ==
    IF ~InAdj(t, u, v) THEN 0
    ELSE IF IsMulti(t) THEN Cardinality(keySet(EdgeObject(t, u, v)))
    ELSE 1

\* the degree of n: the edges at n, a self-loop counted twice
Degree(t, n) ==
    SumOver(Table([v \in Keys(t) |-> Multiplicity(t, n, v)]), Keys(t))
        + (IF IsDirected(t)
           THEN SumOver(Table([u \in Keys(t) |-> Multiplicity(t, u, n)]), Keys(t))
           ELSE Multiplicity(t, n, n))

\* the number of edges of t
EdgeCount(t) ==
    LET all == SumOver(Table([e \in Keys(t) \X Keys(t) |-> Multiplicity(t, e[1], e[2])]),
                       Keys(t) \X Keys(t))
        loops == SumOver(Table([u \in Keys(t) |-> Multiplicity(t, u, u)]), Keys(t))
    IN  IF IsDirected(t) THEN all ELSE (all + loops) \div 2

\* what a graph with any labels holds: its node attributes and, for each
\* adjacency entry, the object it refers to
LabelContent(t) ==
    [nodes |-> {<<n, node(t, n)>> : n \in keySet(t.nodes_)},
     adj |-> {<<e[1], e[2], ValueOf(t, get(adj(t, e[1]), e[2]))>> :
                    e \in {f \in Keys(t) \X Keys(t) : InAdj(t, f[1], f[2])}},
     pred |-> {<<e[1], e[2], ValueOf(t, get(pred(t, e[1]), e[2]))>> :
                    e \in {f \in Keys(t) \X Keys(t) : InPred(t, f[1], f[2])}}]

\* C22: convert_node_labels_to_integers with 'increasing degree' returns a
\* graph whose degree does not decrease with the label, with 'decreasing
\* degree' one whose degree does not increase, and in both the degrees of
\* the result are the degrees of G, counted with their multiplicity.
C22_DegreeOrderings ==
    \A ordering \in {"increasing degree", "decreasing degree"} :
        \A r \in convert_node_labels_to_integers(This, 0, ordering) :
            LET H == r.this
                degrees == {Degree(H, x) : x \in keySet(H.nodes_)}
                            \cup {Degree(This, x) : x \in keySet(nodes_)}
            IN  /\ r.err = "none"
                /\ \A x \in keySet(H.nodes_), y \in keySet(H.nodes_) :
                        x[2] < y[2] =>
                            IF ordering = "increasing degree"
                            THEN Degree(H, x) <= Degree(H, y)
                            ELSE Degree(H, x) >= Degree(H, y)
                /\ \A d \in degrees :
                        Cardinality({x \in keySet(H.nodes_) : Degree(H, x) = d})
                            = Cardinality({x \in keySet(nodes_) : Degree(This, x) = d})

\* C23: for every first label k and every ordering,
\* convert_node_labels_to_integers(G, k, ordering) returns a graph whose
\* nodes are the integers k .. k + order(G) - 1 and which has as many edges
\* as G; G is as before, also after a later structural call on the result.
C23_IntegerLabels ==
    \A k \in FirstLabels, ordering \in Orderings :
        \A r \in convert_node_labels_to_integers(This, k, ordering) :
            LET H == r.this
            IN  /\ r.err = "none"
                /\ keySet(H.nodes_) = {Num(j) : j \in k..(k + getCount(nodes_) - 1)}
                /\ EdgeCount(H) = EdgeCount(This)
                /\ \A h1 \in Mutations(H) :
                        LabelContent(OriginalAfter(This, relabel_copy_shared, h1))
                            = LabelContent(This)


\* add_edge(u, v, attr) followed by remove_edge(u, v)
AddThenRemoveEdge(t, u, v, attr) ==
    Then(add_edge(t, u, v, Null, attr), LAMBDA t1 : remove_edge(t1, u, v, Null))

RemoveNodeBunches == UNION {[1..k -> Nodes] : k \in 1..MaxRemoveBunch}

RemoveEdgeBunches ==
    UNION {[1..k -> [u : Nodes, v : Nodes, key : KeyArgs, attr : {EmptyAttr}]] :
                k \in 1..MaxRemoveBunch}

\* the pair (a, b) is named by an item of ebunch (in an undirected graph in
\* either direction)
Listed(t, ebunch, a, b) ==
    \E i \in DOMAIN ebunch :
        \/ <<ebunch[i].u, ebunch[i].v>> = <<a, b>>
        \/ ~IsDirected(t) /\ <<ebunch[i].u, ebunch[i].v>> = <<b, a>>

\* the item e names an edge of t
ItemPresent(t, e) ==
    IF IsMulti(t) THEN MultiGraph_has_edge(t, e.u, e.v, e.key)
    ELSE Graph_has_edge(t, e.u, e.v)

\* C25: in every variant, remove_nodes_from and remove_edges_from raise no
\* error for items that are not in the graph, skip them, remove every listed
\* item that is present and leave the rest of the graph as it was.
C25_RemoveBunchesSkipAbsent ==
    /\ \A nodes \in RemoveNodeBunches :
            LET r == remove_nodes_from(This, nodes)
                listed == {nodes[i] : i \in DOMAIN nodes}
                Kept(S) == {e \in S : e[1] \notin listed /\ e[2] \notin listed}
            IN  /\ r.err = "none"
                /\ Content(r.this).nodes = {e \in Content(This).nodes : e[1] \notin listed}
                /\ Content(r.this).adj = Kept(Content(This).adj)
                /\ Content(r.this).pred = Kept(Content(This).pred)
    /\ \A ebunch \in RemoveEdgeBunches :
            LET r == remove_edges_from(This, ebunch)
                Kept(t, S) == {e \in S : ~Listed(t, ebunch, e[1], e[2])}
            IN  /\ r.err = "none"
                /\ Content(r.this).nodes = Content(This).nodes
                /\ \A i \in DOMAIN ebunch :
                        (IsMulti(This) => ebunch[i].key # Null) =>
                            ~ItemPresent(r.this, ebunch[i])
                /\ Kept(This, Content(r.this).adj) = Kept(This, Content(This).adj)
                /\ {e \in Content(r.this).pred : ~Listed(This, ebunch, e[2], e[1])}
                        = {e \in Content(This).pred : ~Listed(This, ebunch, e[2], e[1])}


\* no node of t has a self-loop
NoSelfLoops(t) == \A n \in Keys(t) : ~InAdj(t, n, n)

\* an injective mapping without an entry old = new, whose old labels are
\* nodes of t, whose old and new labels overlap, and whose pairs old -> new
\* form no cycle: a chain such as {a: b, b: c}
ChainMapping(t, mapping) ==
    /\ \A j \in DOMAIN mapping, k \in DOMAIN mapping : mapping[j] = mapping[k] => j = k
    /\ \A k \in DOMAIN mapping : mapping[k] # Str(k) /\ has_node(t, Str(k))
    /\ Set_intersection(mapping) # {}
    /\ ~MappingCycle(mapping)

\* the graphs s and t have the same nodes and the same edges
SameNodesAndEdges(s, t) ==
    /\ keySet(s.nodes_) = keySet(t.nodes_)
    /\ \A u \in Keys(s) \cup Keys(t), v \in Keys(s) \cup Keys(t) :
            Multiplicity(s, u, v) = Multiplicity(t, u, v)

\* C26: for a graph without self-loops and a chain mapping, the in-place
\* relabelling rewrites the old labels in an order in which no node is
\* renamed to the label of a node that still waits to be renamed, and it
\* leaves G with the nodes and edges of the copy-mode result for the same
\* mapping.
C26_ChainInplaceEqualsCopy ==
    NoSelfLoops(This) =>
        \A mapping \in InplaceMappings :
            ChainMapping(This, mapping) =>
                LET order == relabel_inplace_order(mapping)
                    r == relabel_inplace_(This, mapping)
                    H == relabel_copy_(This, mapping)
                IN  /\ order.err = "none"
                    /\ \A i \in DOMAIN order.value, j \in DOMAIN order.value :
                            (/\ i < j
                             /\ PropertyName(order.value[i]) \in DOMAIN mapping
                             /\ PropertyName(order.value[j]) \in DOMAIN mapping) =>
                                mapping[PropertyName(order.value[i])] # order.value[j]
                    /\ r.err = "none"
                    /\ H.err = "none"
                    /\ SameNodesAndEdges(r.this, H.this)


\* what the graph t holds at the node n: its attributes and its adjacency
\* entries, by value
NodeContent(t, n) ==
    [attr |-> IF has_node(t, n) THEN <<node(t, n)>> ELSE <<>>,
     adj |-> {e \in LabelContent(t).adj : e[1] = n \/ e[2] = n},
     pred |-> {e \in LabelContent(t).pred : e[1] = n \/ e[2] = n}]

\* C27: an in-place relabel_nodes whose mapping maps a node to itself
\* returns normally and leaves that node in G with the attributes and the
\* incident edges it had; an isolated node mapped to itself is not removed.
C27_SelfMappedEntryIsNoOp ==
    \A n \in Labels :
        has_node(This, n) =>
            LET mapping == (PropertyName(n) :> n)
                r == relabel_inplace_(This, mapping)
            IN  /\ r.err = "none"
                /\ has_node(r.this, n)
                /\ NodeContent(r.this, n) = NodeContent(This, n)


\* an injective mapping whose new labels are fresh: neither nodes of t nor
\* old labels
FreshMapping(t, mapping) ==
    /\ DOMAIN mapping # {}
    /\ \A j \in DOMAIN mapping, k \in DOMAIN mapping : mapping[j] = mapping[k] => j = k
    /\ \A k \in DOMAIN mapping :
            ~has_node(t, mapping[k]) /\ mapping[k][2] \notin DOMAIN mapping

\* C28: after an in-place relabel_nodes with an injective mapping to fresh
\* labels that returns normally, no old label is a node of G, G has as many
\* nodes and as many edges as before, and a self-loop on an old label is a
\* self-loop on its new label.
C28_FreshLabelsReplaceOld ==
    \A mapping \in InplaceMappings :
        FreshMapping(This, mapping) =>
            LET r == relabel_inplace_(This, mapping)
            IN  r.err = "none" =>
                    /\ \A k \in DOMAIN mapping : ~has_node(r.this, Str(k))
                    /\ getCount(r.this.nodes_) = getCount(nodes_)
                    /\ EdgeCount(r.this) = EdgeCount(This)
                    /\ \A k \in DOMAIN mapping :
                            InAdj(This, Str(k), Str(k)) =>
                                InAdj(r.this, mapping[k], mapping[k])


\* the positions in the rewrite order whose label has an entry in the mapping
EntryPositions(mapping, nodes) ==
    {i \in DOMAIN nodes : PropertyName(nodes[i]) \in DOMAIN mapping}

\* the positions of the entries whose old label is not a node of t
MissingPositions(t, mapping, nodes) ==
    {i \in EntryPositions(mapping, nodes) : ~has_node(t, nodes[i])}

\* C29: when an in-place relabel_nodes raises the lookup error or the
\* infeasibility error, G is exactly as it was before the call, wherever
\* the offending entry stands in the mapping.
C29_ErrorLeavesGraphUnchanged ==
    \A mapping \in InplaceMappings :
        LET r == relabel_inplace_(This, mapping)
        IN  r.err \in {"JSNetworkXError", "JSNetworkXUnfeasible"} =>
                LabelContent(r.this) = LabelContent(This)

\* C29, amended: the infeasibility error leaves G as it was.  The lookup
\* error is raised at the first entry, in the order of the rewrite, whose
\* old label is not a node: the entries before it have been applied (their
\* new labels are nodes of G), and G is as it was when no entry precedes it.
C29_ErrorKeepsEarlierRewrites ==
    \A mapping \in InplaceMappings :
        LET order == relabel_inplace_order(mapping)
            r == relabel_inplace_(This, mapping)
        IN  /\ r.err = "JSNetworkXUnfeasible" => LabelContent(r.this) = LabelContent(This)
            /\ r.err = "JSNetworkXError" =>
                    LET missing == MissingPositions(This, mapping, order.value)
                        before == {i \in EntryPositions(mapping, order.value) :
                                        \A m \in missing : i < m}
                    IN  /\ missing # {}
                        /\ \A i \in before :
                                has_node(r.this, mapping[PropertyName(order.value[i])])
                        /\ before = {} => LabelContent(r.this) = LabelContent(This)

\* a lookup error raised after an earlier entry has been applied: G has a
\* node it did not have, and is not as it was
C29_Witness ==
    \E mapping \in InplaceMappings :
        LET r == relabel_inplace_(This, mapping)
        IN  /\ r.err = "JSNetworkXError"
            /\ \E k \in DOMAIN mapping :
                    has_node(This, Str(k)) /\ ~has_node(This, mapping[k])
                        /\ has_node(r.this, mapping[k])
            /\ LabelContent(r.this) # LabelContent(This)


\* the strings whose text is that of a number key: "1" for 1
StringKeys == {Str(i) : i \in 1..MaxMapKey}

\* C30: keys that are different values are independent entries of a map
\* even when their strings are the same (the number 1 and the string "1"):
\* set(k2, v) for a key k2 that the map does not contain adds one to
\* getCount() and leaves the entry of every other key as it was; after
\* add_node(1) and add_node("1") a graph has two nodes, 1 among them.
C30_DistinctKeysIndependent ==
    /\ \A k2 \in MapKeys \cup StringKeys, v \in MapVals :
            ~containsKey(hm, k2) =>
                LET m == set(hm, k2, v)
                IN  /\ getCount(m) = getCount(hm) + 1
                    /\ containsKey(m, k2)
                    /\ \A k1 \in (MapKeys \cup StringKeys) \ {k2} :
                            containsKey(hm, k1) =>
                                containsKey(m, k1) /\ get(m, k1) = get(hm, k1)
    /\ LET r == Then(add_node(This, Num(1), EmptyAttr), LAMBDA t :
                        add_node(t, Str(1), EmptyAttr))
       IN  /\ r.err = "none"
           /\ getCount(r.this.nodes_) = 2
           /\ has_node(r.this, Num(1))

====
